---- MODULE Spec2Model ----
(***************************************************************************)
(* Model of the code-archaeologist excavation pipeline                      *)
(* (ExcavatorAgent.excavate and its phases), of the API server's job map    *)
(* that runs it, and of the Redis-backed job store of the backend.          *)
(*                                                                          *)
(* Strings that the code inspects character by character (paths, search    *)
(* patterns, file contents) are sequences of one-character strings.         *)
(***************************************************************************)
EXTENDS Integers, Sequences, FiniteSets, TLC

(***************************************************************************)
(* Bounds of the model                                                      *)
(***************************************************************************)
\* largest explicit maxFiles option a request or command line carries
MaxFilesOpt == 2
\* largest number of commits the log query returns for one file
MaxLog == 2
\* number of interactive commands accepted before only a/d remain
MaxCmds == 2

\* number of Kestra webhook requests that arrive for the job
MaxHooks == 1

NULL == "null"

\* an optional value: None, or Some(x)
None == <<>>
Some(x) == <<x>>

(***************************************************************************)
(* Program constants                                                        *)
(***************************************************************************)
DefaultMaxFiles == 10
DefaultMaxCommitsPerFile == 5

(***************************************************************************)
(* Character-sequence helpers                                               *)
(***************************************************************************)
UpperChars == <<"A","B","C","D","E","F","G","H","I","J","K","L","M",
                "N","O","P","Q","R","S","T","U","V","W","X","Y","Z">>
LowerChars == <<"a","b","c","d","e","f","g","h","i","j","k","l","m",
                "n","o","p","q","r","s","t","u","v","w","x","y","z">>

\* String.prototype.toLowerCase on one character
LowerChar(c) ==
  IF \E k \in 1..26 : UpperChars[k] = c
  THEN LowerChars[CHOOSE k \in 1..26 : UpperChars[k] = c]
  ELSE c

\* String.prototype.toLowerCase
toLowerCase(s) == [k \in 1..Len(s) |-> LowerChar(s[k])]

\* String.prototype.includes: sub occurs in s as a contiguous substring
includes(s, sub) ==
  \E k \in 0..(Len(s) - Len(sub)) : SubSeq(s, k + 1, k + Len(sub)) = sub

\* index of the last occurrence of character c in s, 0 when absent
LastIndexOf(s, c) ==
  IF \E k \in 1..Len(s) : s[k] = c
  THEN CHOOSE k \in 1..Len(s) : s[k] = c /\ \A m \in (k+1)..Len(s) : s[m] # c
  ELSE 0

\* path.basename
basename(p) == SubSeq(p, LastIndexOf(p, "/") + 1, Len(p))

\* path.extname: from the last dot of the basename, empty when the basename
\* has no dot or only a leading one
extname(p) ==
  LET b == basename(p)
      d == LastIndexOf(b, ".")
  IN  IF d <= 1 THEN <<>> ELSE SubSeq(b, d, Len(b))

\* getExtension: extension without dot, lower-cased
getExtension(p) ==
  LET e == toLowerCase(extname(p))
  IN  IF e = <<>> THEN <<>> ELSE SubSeq(e, 2, Len(e))

sourceExtensions ==
  { <<"t","s">>, <<"t","s","x">>, <<"j","s">>, <<"j","s","x">>,
    <<"m","j","s">>, <<"c","j","s">>, <<"p","y">>, <<"j","a","v","a">>,
    <<"g","o">>, <<"r","s">>, <<"r","b">>, <<"p","h","p">>, <<"c">>,
    <<"c","p","p">>, <<"c","c">>, <<"h">>, <<"h","p","p">>, <<"c","s">>,
    <<"s","w","i","f","t">>, <<"k","t">>, <<"s","c","a","l","a">>,
    <<"v","u","e">>, <<"s","v","e","l","t","e">> }

isSourceFile(p) == getExtension(p) \in sourceExtensions

\* a bug that leaves bin out of the list
ignorePathsNoBin ==
  { <<"n","o","d","e","_","m","o","d","u","l","e","s">>,
    <<"v","e","n","d","o","r">>, <<"d","i","s","t">>,
    <<"b","u","i","l","d">>, <<".","g","i","t">>,
    <<"_","_","p","y","c","a","c","h","e","_","_">>,
    <<".","v","e","n","v">>, <<"v","e","n","v">>, <<".","n","e","x","t">>,
    <<"c","o","v","e","r","a","g","e">>,
    <<".","n","y","c","_","o","u","t","p","u","t">>,
    <<"t","a","r","g","e","t">>, <<"o","b","j">> }

ignorePaths ==
  { <<"n","o","d","e","_","m","o","d","u","l","e","s">>,
    <<"v","e","n","d","o","r">>, <<"d","i","s","t">>,
    <<"b","u","i","l","d">>, <<".","g","i","t">>,
    <<"_","_","p","y","c","a","c","h","e","_","_">>,
    <<".","v","e","n","v">>, <<"v","e","n","v">>, <<".","n","e","x","t">>,
    <<"c","o","v","e","r","a","g","e">>,
    <<".","n","y","c","_","o","u","t","p","u","t">>,
    <<"t","a","r","g","e","t">>, <<"b","i","n">>, <<"o","b","j">> }

\* a bug that looks at the start of the path only
shouldIgnorePathStart(p) ==
  \E ig \in ignorePaths : Len(ig) <= Len(p) /\ SubSeq(p, 1, Len(ig)) = ig

shouldIgnorePath(p) == \E ig \in ignorePaths : includes(p, ig)

\* Array.prototype.includes
InSeq(s, x) == \E k \in 1..Len(s) : s[k] = x

\* Array.prototype.slice(0, n) for n >= 0
slice0(s, n) == SubSeq(s, 1, IF n < Len(s) THEN n ELSE Len(s))

(***************************************************************************)
(* The repository the run looks at                                          *)
(***************************************************************************)
PathA   == <<"a",".","t","s">>
PathU   == <<"b","/","U",".","p","y">>
PathBin == <<"b","i","n","/","c",".","t","s">>
PathMd  == <<"r",".","m","d">>

\* every path the repository may track, in the byte order of git ls-files
TrackedOrder == <<PathA, PathU, PathBin, PathMd>>

\* output of `git ls-files` split on newlines, empty lines dropped
lsFiles(tracked) == SelectSeq(TrackedOrder, LAMBDA p : p \in tracked)

\* the filter shared by gatherRepositoryStats and discoverFiles
sourceFilter(all) == SelectSeq(all, LAMBDA f : isSourceFile(f) /\ ~shouldIgnorePath(f))

(***************************************************************************)
(* Environment answers                                                      *)
(***************************************************************************)
AuthorNames == {"ann", "bob"}

\* results of readFileSafe: null when the read throws, else the content
ContentEmpty == <<>>
ContentCode  == <<"x", "\n", "y">>
ReadResults ==
  { [isNull |-> TRUE, text |-> <<>>],
    [isNull |-> FALSE, text |-> ContentEmpty],
    [isNull |-> FALSE, text |-> ContentCode] }

RECURSIVE SeqsUpTo(_, _)
\* all sequences over S of length at most n
SeqsUpTo(S, n) ==
  IF n = 0 THEN {<<>>}
  ELSE LET shorter == SeqsUpTo(S, n - 1)
       IN  shorter \cup {Append(q, x) : q \in shorter, x \in S}

Min(a, b) == IF a < b THEN a ELSE b

\* model lists the model-listing endpoint may answer with (already filtered
\* to the models supporting generateContent)
ModelLists == {<<>>, <<"gemini-pro", "gemini-flash">>}

\* m.includes("flash")
IsFlash(m) == m = "gemini-flash"

\* raw texts the model may answer with, as token sequences
RawResponses ==
  { <<>>, <<"junk">>, <<"{obj}">>, <<"fence-json", "{obj}", "fence">>,
    <<"junk", "{obj}", "junk">> }

\* what generate() gives analyzeCodeContext: the raw text, or the error it
\* raises after its retries
ServiceAnswers ==
  {[raised |-> TRUE, raw |-> <<>>]} \cup
  {[raised |-> FALSE, raw |-> t] : t \in RawResponses}

\* what git.log gives getFileCommits for one file: the authors of the
\* commits, newest first, or an error
LogResults(maxCount) ==
  {[raised |-> TRUE, all |-> <<>>]} \cup
  {[raised |-> FALSE, all |-> cs] : cs \in SeqsUpTo(AuthorNames, Min(MaxLog, maxCount))}

\* search patterns typed after the interactive command s
Patterns == {<<>>, <<"u">>, <<"b", "/">>, <<"z">>}

JobId == "job1"

(***************************************************************************)
(* Pure parts of the pipeline                                               *)
(***************************************************************************)
\* content.split("\n").length
RECURSIVE CountChar(_, _)
CountChar(s, c) ==
  IF s = <<>> THEN 0
  ELSE (IF Head(s) = c THEN 1 ELSE 0) + CountChar(Tail(s), c)

splitLines(content) == CountChar(content, "\n") + 1

\* [...new Set(xs)]: first occurrences, in order
RECURSIVE Dedup(_)
Dedup(xs) ==
  IF xs = <<>> THEN <<>>
  ELSE LET init == Dedup(SubSeq(xs, 1, Len(xs) - 1))
           last == xs[Len(xs)]
       IN  IF InSeq(init, last) THEN init ELSE Append(init, last)

\* GeminiSynthesisEngine.initialize: the model it picks, NULL when it throws
pickModel(validModels) ==
  IF Len(validModels) = 0 THEN NULL
  ELSE IF \E k \in 1..Len(validModels) : IsFlash(validModels[k])
       THEN validModels[CHOOSE k \in 1..Len(validModels) :
              IsFlash(validModels[k]) /\ \A m \in 1..(k-1) : ~IsFlash(validModels[m])]
       ELSE validModels[1]

\* GeminiSynthesisEngine.parseJson: fences stripped, then the text from the
\* first opening to the last closing brace is parsed; "throw" when JSON.parse
\* raises
parseJson(raw) ==
  LET noHead == IF raw # <<>> /\ Head(raw) \in {"fence-json", "fence"} THEN Tail(raw) ELSE raw
      cleaned == IF noHead # <<>> /\ noHead[Len(noHead)] = "fence"
                 THEN SubSeq(noHead, 1, Len(noHead) - 1) ELSE noHead
  IN  IF InSeq(cleaned, "{obj}") THEN "analysis" ELSE "throw"

\* outcome of gemini.analyzeCodeContext for one answer of the service:
\* generate() raises after its retries ("network"), or parseJson decides
analyzeCodeContext(answer) ==
  IF answer.raised THEN [analysis |-> NULL, outcome |-> "network"]
  ELSE IF parseJson(answer.raw) = "throw"
       THEN [analysis |-> NULL,
             outcome |-> IF answer.raw = <<>> THEN "empty" ELSE "unparsable"]
       ELSE [analysis |-> "analysis", outcome |-> "ok"]

\* the `if (!content) return null` test of analyzeFile
contentMissing(content) == content.isNull \/ content.text = <<>>

\* modelUsed of the report
modelUsedOf(skip, name) == IF skip THEN "none" ELSE name

\* stable sort by commits.length, descending (files.sort of generateInsights)
RECURSIVE InsertByCommits(_, _)
InsertByCommits(sorted, v) ==
  IF sorted = <<>> THEN <<v>>
  ELSE IF Len(Head(sorted).commits) >= Len(v.commits)
       THEN <<Head(sorted)>> \o InsertByCommits(Tail(sorted), v)
       ELSE <<v>> \o sorted

RECURSIVE sortByCommits(_)
sortByCommits(fs) ==
  IF fs = <<>> THEN <<>>
  ELSE InsertByCommits(sortByCommits(SubSeq(fs, 1, Len(fs) - 1)), fs[Len(fs)])

\* options.maxFiles || 10 (server) and parseInt(...) || 10 (command line)
maxFilesOr(n) == IF n = 0 THEN DefaultMaxFiles ELSE n

(***************************************************************************)
(* State of one excavation run and of the API server that started it        *)
(***************************************************************************)
VARIABLES
  repoFiles,      \* paths the repository tracks
  jobs,           \* the API server's job map: job id -> ExcavationJob
  response,       \* APIResponse of the request handled by the last step
  entry,          \* who started the run: "none", "api" or "cli"
  startedSkip,    \* skipAnalysis as requested when the run started
  options,        \* ExcavatorAgent.options
  pc,             \* position of excavate()
  modelName,      \* GeminiSynthesisEngine.modelName
  initCalls,      \* calls of gemini.initialize made by the run
  initFailed,     \* the initialize call of the run threw
  stats,          \* RepositoryStats of phase 1
  allFiles,       \* result of discoverFiles
  discoveryFailed,\* the listing call of discoverFiles threw
  selected,       \* interactiveFileSelection's selected list
  cmdCount,       \* interactive commands read so far
  filesToAnalyze, \* list handed to analyzeFiles
  idx,            \* analyzeFiles' loop index i (1-based)
  results,        \* analyzeFiles' results array, later report.files
  fileLog,        \* per processed file: what was read and what the service did
  delays,         \* sleeps taken by analyzeFiles
  analysisOut,    \* results as returned by analyzeFiles
  graphSaw,       \* the list buildKnowledgeGraph was given
  insightsSaw,    \* the list generateInsights was given
  phases,         \* phase start/end events in order
  report,         \* the report excavate returned
  saved,          \* archaeological-report.json was written
  failCause,      \* what made excavate throw
  storeJob,       \* backend: the value of the Redis key job:<id>
  procStep,       \* backend: position of processExcavation in its plan
  procPhase,      \* backend: "get" or "set" half of the update in progress
  procRead,       \* backend: the job the update in progress has read
  hookPc,         \* backend: position of each Kestra webhook request
  hookUpdates,    \* backend: the updates each webhook request writes
  hookRead,       \* backend: the job each webhook's update has read
  seenMax,        \* backend: largest progress a poll has returned so far
  seenDrop,       \* backend: a poll returned less than an earlier poll
  aPc,            \* one analyzeFile call: the await it is at
  aSkip,          \* one analyzeFile call: options.skipAnalysis
  aMaxCount,      \* one analyzeFile call: options.maxCommitsPerFile
  aHistory,       \* one analyzeFile call: the commits of the file, newest first
  aLog,           \* getFileCommits: log.all
  aCommits,       \* getFileCommits: the commits array
  attempt,        \* generate: attempt
  genCalls,       \* generate: generateContent calls made
  genWaits,       \* generate: the timeouts awaited, in ms
  aResult,        \* one analyzeFile call: what it returned
  gFiles,         \* buildKnowledgeGraph: the files argument
  gTopAuthors,    \* buildKnowledgeGraph: stats.topAuthors (names)
  graph,          \* buildKnowledgeGraph: the returned graph
  gitAnalyzer,    \* express server: the module-level gitAnalyzer
  reqs,           \* express server: the requests being handled
  pPath,          \* utils: the path given to shouldIgnorePath
  pAnswers,       \* utils: what the calls of shouldIgnorePath returned
  pDiscovered,    \* utils: what the filter of discoverFiles kept of pPath
  dCode,          \* utils: the text given to extractDefinitions
  dLanguage,      \* utils: the language given to extractDefinitions
  dDefs,          \* utils: the list extractDefinitions returned
  mInput,         \* utils: the measures of the text given to estimateMaintainability
  mScore,         \* utils: what estimateMaintainability returned
  iGiven,         \* insights: the list generateInsights was called with
  iFiles,         \* insights: that array as the call leaves it
  insights,       \* insights: what generateInsights returned
  starting,       \* API server: the job whose start request is being handled
  jobPc,          \* API server: where the run of each job id stands
  jobPromise      \* API server: the promise runExcavation returned, per job id

fileVars == << aPc, aSkip, aMaxCount, aHistory, aLog, aCommits, attempt,
               genCalls, genWaits, aResult >>

graphVars == << gFiles, gTopAuthors, graph >>

reqVars == << gitAnalyzer, reqs >>

utilVars == << pPath, pAnswers, pDiscovered, dCode, dLanguage, dDefs,
               mInput, mScore >>

insightVars == << iGiven, iFiles, insights >>

jobVars == << starting, jobPc, jobPromise >>

unitVars == << fileVars, graphVars, reqVars, utilVars, insightVars, jobVars >>

vars == << unitVars, repoFiles, jobs, response, entry, startedSkip, options, pc,
           modelName, initCalls, initFailed, stats, allFiles, discoveryFailed,
           selected, cmdCount, filesToAnalyze, idx, results, fileLog, delays,
           analysisOut, graphSaw, insightsSaw, phases, report, saved,
           failCause, storeJob, procStep, procPhase, procRead, hookPc,
           hookUpdates, hookRead, seenMax, seenDrop >>

storeVars == << storeJob, procStep, procPhase, procRead, hookPc,
                hookUpdates, hookRead, seenMax, seenDrop >>

runVars == << entry, startedSkip, options, pc, modelName, initCalls,
              initFailed, stats, allFiles, discoveryFailed, selected,
              cmdCount, filesToAnalyze, idx, results, fileLog, delays,
              analysisOut, graphSaw, insightsSaw, phases, report, saved,
              failCause >>

Hooks == 1..MaxHooks

\* the backend before any request
StoreInit ==
  /\ storeJob = None
  /\ procStep = 0
  /\ procPhase = "get"
  /\ procRead = None
  /\ hookPc = [h \in Hooks |-> "idle"]
  /\ hookUpdates = [h \in Hooks |-> << >>]
  /\ hookRead = [h \in Hooks |-> None]
  /\ seenMax = 0
  /\ seenDrop = FALSE

\* no analyzeFile call under way
FileAtRest ==
  /\ aPc = "idle"
  /\ aSkip = FALSE
  /\ aMaxCount = DefaultMaxCommitsPerFile
  /\ aHistory = <<>>
  /\ aLog = None
  /\ aCommits = <<>>
  /\ attempt = 0
  /\ genCalls = 0
  /\ genWaits = <<>>
  /\ aResult = None

\* no buildKnowledgeGraph call under way
GraphAtRest ==
  /\ gFiles = <<>>
  /\ gTopAuthors = <<>>
  /\ graph = None

\* the express server before any request
RequestsAtRest ==
  /\ gitAnalyzer = None
  /\ reqs = << >>

\* no call of a function of utils.ts under way
PathAtRest ==
  /\ pPath = <<>>
  /\ pAnswers = <<>>
  /\ pDiscovered = None

DefinitionsAtRest ==
  /\ dCode = <<>>
  /\ dLanguage = "none"
  /\ dDefs = None

MaintainabilityAtRest ==
  /\ mInput = [lines |-> 0, complexity |-> 0, longLines |-> 0,
               commentLines |-> 0]
  /\ mScore = None

UtilsAtRest ==
  /\ PathAtRest
  /\ DefinitionsAtRest
  /\ MaintainabilityAtRest

\* no generateInsights call under way
InsightsAtRest ==
  /\ iGiven = <<>>
  /\ iFiles = <<>>
  /\ insights = None

MaxJobs == 2
jobIdOf(n) == <<"job", n>>
JobIds == {jobIdOf(n) : n \in 1..MaxJobs}

\* the API server with no start request received
JobsAtRest ==
  /\ starting = None
  /\ jobPc = [id \in JobIds |-> [at |-> "none", repoPath |-> ""]]
  /\ jobPromise = [id \in JobIds |-> "none"]

\* the API server and the agent before a run
RunInit ==
  /\ jobs = << >>
  /\ response = None
  /\ entry = "none"
  /\ startedSkip = FALSE
  /\ options = [maxFiles |-> DefaultMaxFiles,
                maxCommitsPerFile |-> DefaultMaxCommitsPerFile,
                interactive |-> FALSE, skipAnalysis |-> FALSE]
  /\ pc = "idle"
  /\ modelName = NULL
  /\ initCalls = 0
  /\ initFailed = FALSE
  /\ stats = None
  /\ allFiles = <<>>
  /\ discoveryFailed = FALSE
  /\ selected = <<>>
  /\ cmdCount = 0
  /\ filesToAnalyze = <<>>
  /\ idx = 1
  /\ results = <<>>
  /\ fileLog = <<>>
  /\ delays = 0
  /\ analysisOut = None
  /\ graphSaw = None
  /\ insightsSaw = None
  /\ phases = <<>>
  /\ report = None
  /\ saved = FALSE
  /\ failCause = NULL

Init ==
  /\ StoreInit
  /\ FileAtRest
  /\ GraphAtRest
  /\ RequestsAtRest
  /\ UtilsAtRest
  /\ InsightsAtRest
  /\ JobsAtRest
  /\ repoFiles \in {srcs \cup {PathBin, PathMd} : srcs \in SUBSET {PathA, PathU}}
  /\ RunInit

Ev(name, kind) == <<name, kind>>
Whole(name) == << Ev(name, "start"), Ev(name, "end") >>

\* first statement of excavate() after the header: initialize the service
\* unless skipping, else go on to phase 1
afterHeader(skip) == IF skip THEN "stats" ELSE "init"

\* a bug that runs the insights phase before the graph phase
phaseAfterSwapped(p) ==
  CASE p = "stats"    -> "discover"
    [] p = "analyze"  -> "insights"
    [] p = "insights" -> "graph"
    [] p = "graph"    -> "report"
    [] p = "report"   -> "done"

\* statement order of excavate(): the phase that follows phase p
phaseAfter(p) ==
  CASE p = "stats"    -> "discover"
    [] p = "analyze"  -> "graph"
    [] p = "graph"    -> "insights"
    [] p = "insights" -> "report"
    [] p = "report"   -> "done"

\* a bug whose catch block forgets options.skipAnalysis = true
skipAfterInitForgets(skip, picked) == skip

\* options.skipAnalysis after the try/catch around gemini.initialize()
skipAfterInit(skip, picked) == IF picked = NULL THEN TRUE ELSE skip

\* a bug that marks the job completed without storing the report
jobCompletedNoReport(job, rep) ==
  [job EXCEPT !.status = "completed", !.completedAt = TRUE]

\* runExcavation after excavate() returned
jobCompleted(job, rep) ==
  [job EXCEPT !.status = "completed", !.completedAt = TRUE,
              !.report = Some(rep)]

\* a bug that leaves completedAt out of the catch block
jobFailedNoTimestamp(job, message) ==
  [job EXCEPT !.status = "failed", !.error = message]

\* the catch block of runExcavation
jobFailed(job, message) ==
  [job EXCEPT !.status = "failed", !.error = message, !.completedAt = TRUE]

\* excavate() throws: the catch of runExcavation, or main()'s process.exit(1)
Fail(cause) ==
  /\ pc' = "failed"
  /\ failCause' = cause
  /\ jobs' = IF entry = "api"
             THEN [jobs EXCEPT ![JobId] = jobFailed(@, cause)]
             ELSE jobs

(***************************************************************************)
(* Entry points                                                             *)
(***************************************************************************)
\* the job handleStartExcavation puts into the map, with the given status
newJob(status) ==
  [status |-> status, error |-> NULL, report |-> None, completedAt |-> FALSE]

\* repository paths of a request: none, an existing directory (a git
\* repository or not, which git.log decides), a directory that is missing
RepoPaths == {"", "/repo", "/missing"}

\* message of the error simpleGit(baseDir) throws for a missing directory
NoDirectory == "directory does not exist"

\* new ExcavatorAgent(repoPath, ...): simpleGit throws when the directory
\* does not exist
constructorThrows(repoPath) == repoPath = "/missing"

\* POST /api/excavate: handleStartExcavation, with the synchronous start of
\* runExcavation (status pending, then running, agent constructed, excavate
\* entered up to its first await)
HandleStartExcavation(repoPath, optMaxFiles, optSkip) ==
  /\ pc = "idle"
  /\ IF repoPath = ""
     THEN /\ response' = Some([success |-> FALSE,
                               error |-> "repoPath is required",
                               data |-> None])
          /\ UNCHANGED << unitVars, storeVars, repoFiles, jobs, runVars >>
     ELSE /\ response' = Some([success |-> TRUE, error |-> NULL,
                               data |-> None])
          /\ entry' = "api"
          /\ startedSkip' = optSkip
          /\ options' = [maxFiles |-> maxFilesOr(optMaxFiles),
                         maxCommitsPerFile |-> DefaultMaxCommitsPerFile,
                         interactive |-> FALSE,
                         skipAnalysis |-> optSkip]
          /\ IF constructorThrows(repoPath)
             THEN /\ jobs' = (JobId :> jobFailed(newJob("running"), NoDirectory))
                  /\ pc' = "failed"
                  /\ failCause' = NoDirectory
             ELSE /\ jobs' = (JobId :> newJob("running"))
                  /\ pc' = afterHeader(optSkip)
                  /\ UNCHANGED failCause
          /\ UNCHANGED << unitVars, storeVars, repoFiles, modelName, initCalls, initFailed, stats,
                          allFiles, discoveryFailed, selected, cmdCount,
                          filesToAnalyze, idx, results, fileLog, delays,
                          analysisOut, graphSaw, insightsSaw, phases, report,
                          saved >>

\* main() of the command line: options parsed, agent constructed (a throw
\* of the constructor ends the process), excavate entered up to its first
\* await
CliMain(repoPath, argMaxFiles, argInteractive, argSkip) ==
  /\ pc = "idle"
  /\ entry' = "cli"
  /\ startedSkip' = argSkip
  /\ options' = [maxFiles |-> maxFilesOr(argMaxFiles),
                 maxCommitsPerFile |-> DefaultMaxCommitsPerFile,
                 interactive |-> argInteractive,
                 skipAnalysis |-> argSkip]
  /\ IF constructorThrows(repoPath)
     THEN /\ pc' = "failed"
          /\ failCause' = NoDirectory
     ELSE /\ pc' = afterHeader(argSkip)
          /\ UNCHANGED failCause
  /\ response' = None
  /\ UNCHANGED << unitVars, storeVars, repoFiles, jobs, modelName, initCalls, initFailed, stats,
                  allFiles, discoveryFailed, selected, cmdCount,
                  filesToAnalyze, idx, results, fileLog, delays, analysisOut,
                  graphSaw, insightsSaw, phases, report, saved >>

\* GET /api/jobs/:id/report
handleGetReport(jobMap, jobId) ==
  IF jobId \notin DOMAIN jobMap
  THEN [success |-> FALSE, error |-> "Job not found", data |-> None]
  ELSE IF jobMap[jobId].status # "completed"
       THEN [success |-> FALSE, error |-> jobMap[jobId].status, data |-> None]
       ELSE [success |-> TRUE, error |-> NULL, data |-> jobMap[jobId].report]

HandleGetReport(jobId) ==
  /\ response' = Some(handleGetReport(jobs, jobId))
  /\ UNCHANGED << unitVars, storeVars, repoFiles, jobs, runVars >>

(***************************************************************************)
(* excavate(): service initialization, statistics, discovery                *)
(***************************************************************************)
\* await this.gemini.initialize() and its catch
GeminiInitialize(fetchOk, validModels) ==
  /\ pc = "init"
  /\ initCalls' = initCalls + 1
  /\ LET picked == IF fetchOk THEN pickModel(validModels) ELSE NULL
     IN
         /\ options' = [options EXCEPT
                           !.skipAnalysis = skipAfterInit(@, picked)]
         /\ initFailed' = (picked = NULL)
         /\ modelName' = picked
  /\ pc' = "stats"
  /\ response' = None
  /\ UNCHANGED << unitVars, storeVars, repoFiles, jobs, entry, startedSkip, stats, allFiles,
                  discoveryFailed, selected, cmdCount, filesToAnalyze, idx,
                  results, fileLog, delays, analysisOut, graphSaw,
                  insightsSaw, phases, report, saved, failCause >>

\* phase 1, gatherRepositoryStats: git.log then git ls-files; either may
\* throw, and nothing in excavate catches it
GatherRepositoryStats(logOk, listOk) ==
  /\ pc = "stats"
  /\ response' = None
  /\ IF logOk /\ listOk
     THEN /\ LET sourceFiles == sourceFilter(lsFiles(repoFiles))
             IN  stats' = Some([totalFiles |-> Len(sourceFiles),
                                analyzedFiles |-> Len(sourceFiles)])
          /\ phases' = phases \o Whole("statistics")
          /\ pc' = phaseAfter("stats")
          /\ UNCHANGED << jobs, failCause >>
     ELSE /\ Fail(IF logOk THEN "git ls-files" ELSE "git log")
          /\ phases' = Append(phases, Ev("statistics", "start"))
          /\ UNCHANGED stats
  /\ UNCHANGED << unitVars, storeVars, repoFiles, entry, startedSkip, options, modelName,
                  initCalls, initFailed, allFiles, discoveryFailed, selected,
                  cmdCount, filesToAnalyze, idx, results, fileLog, delays,
                  analysisOut, graphSaw, insightsSaw, report, saved >>

\* what the analysis phase starts with: the list, the loop index, the phase
\* events (the loop body never runs for an empty list)
EnterAnalysis(files, before) ==
  /\ filesToAnalyze' = files
  /\ idx' = 1
  /\ IF Len(files) = 0
     THEN /\ phases' = phases \o before \o Whole("analysis")
          /\ analysisOut' = Some(results)
          /\ pc' = phaseAfter("analyze")
     ELSE /\ phases' = phases \o before \o << Ev("analysis", "start") >>
          /\ UNCHANGED analysisOut
          /\ pc' = "analyze"

\* phase 2, discoverFiles; a listing that throws is caught and gives []
\* then `filesToAnalyze = allFiles.slice(0, maxFiles)` or the interactive
\* selection
DiscoverFiles(listOk) ==
  /\ pc = "discover"
  /\ response' = None
  /\ LET found == IF listOk THEN sourceFilter(lsFiles(repoFiles)) ELSE <<>>
     IN  /\ allFiles' = found
         /\ discoveryFailed' = ~listOk
         /\ IF options.interactive
            THEN /\ phases' = phases \o Whole("discovery")
                             \o << Ev("selection", "start") >>
                 /\ pc' = "select"
                 /\ UNCHANGED << filesToAnalyze, idx, analysisOut >>
            ELSE EnterAnalysis(slice0(found, options.maxFiles),
                               Whole("discovery"))
  /\ UNCHANGED << unitVars, storeVars, repoFiles, jobs, entry, startedSkip, options, modelName,
                  initCalls, initFailed, stats, selected, cmdCount, results,
                  fileLog, delays, graphSaw, insightsSaw, report, saved,
                  failCause >>

(***************************************************************************)
(* interactiveFileSelection: one action per command read                    *)
(***************************************************************************)
\* a return of interactiveFileSelection; its locals are gone afterwards
SelectionReturns(files) ==
  /\ EnterAnalysis(files, << Ev("selection", "end") >>)
  /\ selected' = <<>>
  /\ cmdCount' = 0
  /\ response' = None
  /\ UNCHANGED << unitVars, storeVars, repoFiles, jobs, entry, startedSkip, options, modelName,
                  initCalls, initFailed, stats, allFiles, discoveryFailed,
                  results, fileLog, delays, graphSaw, insightsSaw, report,
                  saved, failCause >>

SelectionContinues(newSelected) ==
  /\ cmdCount < MaxCmds
  /\ selected' = newSelected
  /\ cmdCount' = cmdCount + 1
  /\ response' = None
  /\ UNCHANGED << unitVars, storeVars, repoFiles, jobs, entry, startedSkip, options, pc,
                  modelName, initCalls, initFailed, stats, allFiles,
                  discoveryFailed, filesToAnalyze, idx, results, fileLog,
                  delays, analysisOut, graphSaw, insightsSaw, phases, report,
                  saved, failCause >>

\* a bug that pushes without the selected.includes test
pushNewNoTest(sel, fs) == sel \o fs

\* selected.push(f) for every f of fs not yet in selected, in order
RECURSIVE pushNew(_, _)
pushNew(sel, fs) ==
  IF fs = <<>> THEN sel
  ELSE pushNew(IF InSeq(sel, Head(fs)) THEN sel ELSE Append(sel, Head(fs)),
               Tail(fs))

\* files.filter(f => f.toLowerCase().includes(pattern.toLowerCase()))
matchingFiles(files, pattern) ==
  SelectSeq(files, LAMBDA f : includes(toLowerCase(f), toLowerCase(pattern)))

\* case "a"
SelectCmdA ==
  /\ pc = "select"
  /\ SelectionReturns(slice0(allFiles, options.maxFiles))

\* case "l"
SelectCmdL ==
  /\ pc = "select"
  /\ SelectionContinues(selected)

\* case "s"
SelectCmdS(pattern) ==
  /\ pc = "select"
  /\ SelectionContinues(IF pattern = <<>> THEN selected
                        ELSE pushNew(selected, matchingFiles(allFiles, pattern)))

\* default: parseInt(cmd); -1 stands for NaN (not a number) or a negative
SelectCmdNumber(num) ==
  /\ pc = "select"
  /\ SelectionContinues(
       IF num > 0 /\ num <= Len(allFiles)
       THEN pushNew(selected, << allFiles[num] >>)
       ELSE selected)

\* case "d"
SelectCmdD ==
  /\ pc = "select"
  /\ SelectionReturns(IF Len(selected) = 0
                      THEN slice0(allFiles, options.maxFiles)
                      ELSE slice0(selected, options.maxFiles))

(***************************************************************************)
(* analyzeFiles / analyzeFile                                               *)
(***************************************************************************)
\* getFileCommits: the log of the file, [] when the query throws
getFileCommits(logResult) == IF logResult.raised THEN <<>> ELSE logResult.all

\* a bug that calls the service even when skipAnalysis is set
analyzeFileIgnoresSkip(filePath, content, logResult, answer, skip) ==
  IF contentMissing(content) THEN [verdict |-> None, outcome |-> "noverdict"]
  ELSE LET commits == getFileCommits(logResult)
           res     == IF Len(commits) > 0 THEN analyzeCodeContext(answer)
                      ELSE [analysis |-> NULL, outcome |-> "nocall"]
       IN  [verdict |-> Some([path |-> filePath,
                              lines |-> splitLines(content.text),
                              commits |-> commits,
                              authors |-> Dedup(commits),
                              analysis |-> res.analysis]),
            outcome |-> res.outcome]

\* a bug without the try/catch around analyzeCodeContext: the error reaches
\* the catch of analyzeFiles and the file gets no verdict
analyzeFileNoCatch(filePath, content, logResult, answer, skip) ==
  IF contentMissing(content) THEN [verdict |-> None, outcome |-> "noverdict"]
  ELSE LET commits == getFileCommits(logResult)
           called  == ~skip /\ Len(commits) > 0
           res     == IF called THEN analyzeCodeContext(answer)
                      ELSE [analysis |-> NULL, outcome |-> "nocall"]
       IN  IF res.outcome \in {"network", "empty", "unparsable"}
           THEN [verdict |-> None, outcome |-> res.outcome]
           ELSE [verdict |-> Some([path |-> filePath,
                                   lines |-> splitLines(content.text),
                                   commits |-> commits,
                                   authors |-> Dedup(commits),
                                   analysis |-> res.analysis]),
                 outcome |-> res.outcome]

\* analyzeFile's result for one file: NULL, or the FileAnalysis
analyzeFile(filePath, content, logResult, answer, skip) ==
  IF contentMissing(content) THEN [verdict |-> None, outcome |-> "noverdict"]
  ELSE LET commits == getFileCommits(logResult)
           called  == ~skip /\ Len(commits) > 0
           res     == IF called THEN analyzeCodeContext(answer)
                      ELSE [analysis |-> NULL, outcome |-> "nocall"]
       IN  [verdict |-> Some([path |-> filePath,
                              lines |-> splitLines(content.text),
                              commits |-> commits,
                              authors |-> Dedup(commits),
                              analysis |-> res.analysis]),
            outcome |-> res.outcome]

\* a bug that also sleeps after the last file
sleepsAfterEvery(skip, i, n) == ~skip

\* the rate-limit test after each file: sleep unless skipping or last file
sleepsAfter(skip, i, n) == ~skip /\ i < n

\* one iteration of the loop of analyzeFiles, up to its sleep
AnalyzeFile(content, logResult, answer) ==
  /\ pc = "analyze"
  /\ idx <= Len(filesToAnalyze)
  /\ response' = None
  /\ LET f == filesToAnalyze[idx]
         r == analyzeFile(f, content, logResult, answer, options.skipAnalysis)
         n == Len(filesToAnalyze)
         newResults == IF r.verdict = None THEN results
                       ELSE Append(results, r.verdict[1])
     IN  /\ results' = newResults
         /\ fileLog' = Append(fileLog,
              [path |-> f,
               read |-> IF content.isNull THEN "unreadable"
                        ELSE IF content.text = <<>> THEN "empty" ELSE "text",
               outcome |-> r.outcome,
               delaysBefore |-> delays])
         /\ idx' = idx + 1
         /\ IF sleepsAfter(options.skipAnalysis, idx, n)
            THEN /\ pc' = "sleep"
                 /\ UNCHANGED << phases, analysisOut >>
            ELSE IF idx < n
                 THEN UNCHANGED << pc, phases, analysisOut >>
                 ELSE /\ pc' = phaseAfter("analyze")
                      /\ phases' = Append(phases, Ev("analysis", "end"))
                      /\ analysisOut' = Some(newResults)
  /\ UNCHANGED << unitVars, storeVars, repoFiles, jobs, entry, startedSkip, options, modelName,
                  initCalls, initFailed, stats, allFiles, discoveryFailed,
                  selected, cmdCount, filesToAnalyze, delays, graphSaw,
                  insightsSaw, report, saved, failCause >>

\* await this.sleep(1500)
Sleep ==
  /\ pc = "sleep"
  /\ delays' = delays + 1
  /\ pc' = "analyze"
  /\ response' = None
  /\ UNCHANGED << unitVars, storeVars, repoFiles, jobs, entry, startedSkip, options, modelName,
                  initCalls, initFailed, stats, allFiles, discoveryFailed,
                  selected, cmdCount, filesToAnalyze, idx, results, fileLog,
                  analysisOut, graphSaw, insightsSaw, phases, report, saved,
                  failCause >>

(***************************************************************************)
(* graph, insights, report                                                  *)
(***************************************************************************)
\* phase 4: buildKnowledgeGraph(analyzedFiles, stats)
BuildKnowledgeGraph ==
  /\ pc = "graph"
  /\ graphSaw' = Some(results)
  /\ phases' = phases \o Whole("graph")
  /\ pc' = phaseAfter("graph")
  /\ response' = None
  /\ UNCHANGED << unitVars, storeVars, repoFiles, jobs, entry, startedSkip, options, modelName,
                  initCalls, initFailed, stats, allFiles, discoveryFailed,
                  selected, cmdCount, filesToAnalyze, idx, results, fileLog,
                  delays, analysisOut, insightsSaw, report, saved,
                  failCause >>

\* phase 5: generateInsights(analyzedFiles, stats); its files.sort(...)
\* sorts the array it was given in place
GenerateInsights ==
  /\ pc = "insights"
  /\ insightsSaw' = Some(results)
  /\ results' = sortByCommits(results)
  /\ phases' = phases \o Whole("insights")
  /\ pc' = phaseAfter("insights")
  /\ response' = None
  /\ UNCHANGED << unitVars, storeVars, repoFiles, jobs, entry, startedSkip, options, modelName,
                  initCalls, initFailed, stats, allFiles, discoveryFailed,
                  selected, cmdCount, filesToAnalyze, idx, fileLog, delays,
                  analysisOut, graphSaw, report, saved, failCause >>

\* the report object, saveReport (writeFileSync may throw), the return, and
\* the continuation of runExcavation
AssembleReport(saveOk) ==
  /\ pc = "report"
  /\ response' = None
  /\ LET rep == [modelUsed |-> modelUsedOf(options.skipAnalysis, modelName),
                 stats |-> stats,
                 files |-> results]
     IN  IF saveOk
         THEN /\ report' = Some(rep)
              /\ saved' = TRUE
              /\ phases' = phases \o Whole("report")
              /\ pc' = phaseAfter("report")
              /\ jobs' = IF entry = "api"
                         THEN [jobs EXCEPT ![JobId] = jobCompleted(@, rep)]
                         ELSE jobs
              /\ UNCHANGED failCause
         ELSE /\ Fail("save report")
              /\ phases' = Append(phases, Ev("report", "start"))
              /\ UNCHANGED << report, saved >>
  /\ UNCHANGED << unitVars, storeVars, repoFiles, entry, startedSkip, options, modelName,
                  initCalls, initFailed, stats, allFiles, discoveryFailed,
                  selected, cmdCount, filesToAnalyze, idx, results, fileLog,
                  delays, analysisOut, graphSaw, insightsSaw >>

Next ==
  \/ \E repoPath \in RepoPaths, m \in 0..MaxFilesOpt, sk \in BOOLEAN :
       HandleStartExcavation(repoPath, m, sk)
  \/ \E repoPath \in RepoPaths \ {""}, m \in 0..MaxFilesOpt,
        ia \in BOOLEAN, sk \in BOOLEAN : CliMain(repoPath, m, ia, sk)
  \/ HandleGetReport(JobId)
  \/ \E ok \in BOOLEAN, ms \in ModelLists : GeminiInitialize(ok, ms)
  \/ \E logOk \in BOOLEAN, listOk \in BOOLEAN : GatherRepositoryStats(logOk, listOk)
  \/ \E listOk \in BOOLEAN : DiscoverFiles(listOk)
  \/ SelectCmdA
  \/ SelectCmdL
  \/ \E pat \in Patterns : SelectCmdS(pat)
  \/ \E num \in (-1)..(Len(allFiles) + 1) : SelectCmdNumber(num)
  \/ SelectCmdD
  \/ \E content \in ReadResults,
        logResult \in LogResults(options.maxCommitsPerFile),
        answer \in ServiceAnswers :
       AnalyzeFile(content, logResult, answer)
  \/ Sleep
  \/ BuildKnowledgeGraph
  \/ GenerateInsights
  \/ \E saveOk \in BOOLEAN : AssembleReport(saveOk)

Spec == Init /\ [][Next]_vars

(***************************************************************************)
(* Properties of the excavation run (specification Spec)                    *)
(***************************************************************************)
IsPrefix(a, b) == Len(a) <= Len(b) /\ SubSeq(b, 1, Len(a)) = a

\* the phase events of a complete run, in the order the claim gives
CanonPhases(interactive) ==
  Whole("statistics") \o Whole("discovery")
  \o (IF interactive THEN Whole("selection") ELSE <<>>)
  \o Whole("analysis") \o Whole("graph") \o Whole("insights")
  \o Whole("report")

AnalysisStarted == InSeq(phases, Ev("analysis", "start"))
AnalysisFinished == analysisOut # None

ServiceFailures == {"network", "empty", "unparsable"}
ServiceCalls == ServiceFailures \cup {"ok"}
LogIndexes == 1..Len(fileLog)
NoServiceCall == \A k \in LogIndexes : fileLog[k].outcome \notin ServiceCalls
AllAnalysisNull == \A k \in 1..Len(results) : results[k].analysis = NULL

\* C1: the phases of a run happen in the order statistics, discovery,
\* (selection when interactive), analysis, graph, insights, report; each
\* starts only after the previous one ended and at most once; the graph and
\* the insights phase are given the list the finished analysis returned.
C1_PhasesInOrder ==
  /\ IsPrefix(phases, CanonPhases(options.interactive))
  /\ graphSaw # None => (AnalysisFinished /\ graphSaw = analysisOut)
  /\ insightsSaw # None => (AnalysisFinished /\ insightsSaw = analysisOut)

C1_Witness ==
  /\ pc = "done"
  /\ options.interactive
  /\ phases = CanonPhases(TRUE)
  /\ Len(graphSaw[1]) = 2
  /\ Len(graphSaw[1][1].commits) < Len(graphSaw[1][2].commits)

\* C2: a job has a report exactly when it is completed; a failed job has an
\* error and no report; handleGetReport gives report data only for a
\* completed job and an error without data for any other job.
C2_ReportIffCompleted ==
  /\ \A id \in DOMAIN jobs :
       /\ (jobs[id].report # None) <=> (jobs[id].status = "completed")
       /\ jobs[id].status = "failed" =>
            (jobs[id].error # NULL /\ jobs[id].report = None)
       /\ LET r == handleGetReport(jobs, id)
          IN  IF jobs[id].status = "completed"
              THEN r.success /\ r.data = jobs[id].report
              ELSE ~r.success /\ r.data = None /\ r.error # NULL
  /\ (response # None /\ response[1].data # None) =>
       (JobId \in DOMAIN jobs /\ jobs[JobId].status = "completed")

C2_Witness ==
  /\ JobId \in DOMAIN jobs
  /\ jobs[JobId].status = "completed"
  /\ response # None
  /\ response[1].data = jobs[JobId].report
  /\ Len(response[1].data[1].files) = 2

NoDuplicates(fs) == \A a, b \in 1..Len(fs) : fs[a] = fs[b] => a = b

C5_SkipNeverContactsService ==
  startedSkip =>
    /\ initCalls = 0
    /\ NoServiceCall
    /\ AllAnalysisNull
    /\ report # None => report[1].modelUsed = "none"

C5_Witness ==
  /\ startedSkip
  /\ pc = "done"
  /\ Len(report[1].files) = 2
  /\ \A k \in 1..2 : Len(report[1].files[k].commits) > 0

RunFailureCauses == {NoDirectory, "git log", "git ls-files", "save report"}

\* C6: when initialize fails in a run that did not ask for skipAnalysis, the
\* run goes on as a skipAnalysis run (no service call, no delay, analysis
\* null everywhere, modelUsed "none"); the failure never ends the run, which
\* still returns a report when it gets to its end.
C6_InitFailureFallsBack ==
  (initFailed /\ ~startedSkip) =>
    /\ options.skipAnalysis
    /\ pc \notin {"idle", "init"}
    /\ NoServiceCall
    /\ delays = 0
    /\ AllAnalysisNull
    /\ pc = "failed" => failCause \in RunFailureCauses
    /\ pc = "done" => (report # None /\ report[1].modelUsed = "none")

C6_Witness ==
  /\ initFailed
  /\ ~startedSkip
  /\ pc = "done"
  /\ Len(report[1].files) = 2
  /\ \A k \in 1..2 : Len(report[1].files[k].commits) > 0

\* C7: a file whose service call fails (network error after the retries,
\* unparsable or empty answer) still gets a verdict with analysis null and
\* metrics, commits and authors filled in; the other files are still
\* analyzed; the run ends with a report and a completed job.
C7_ServiceFailureKeepsVerdict ==
  /\ \A k \in LogIndexes :
       fileLog[k].outcome \in ServiceFailures =>
         \E v \in 1..Len(results) :
           /\ results[v].path = fileLog[k].path
           /\ results[v].analysis = NULL
           /\ results[v].lines >= 1
           /\ Len(results[v].commits) > 0
           /\ Len(results[v].authors) > 0
  /\ AnalysisStarted /\ ~AnalysisFinished /\ pc # "failed" =>
       (pc \in {"analyze", "sleep"} /\ idx = Len(fileLog) + 1)
  /\ AnalysisFinished =>
       /\ Len(fileLog) = Len(filesToAnalyze)
       /\ \A k \in LogIndexes : fileLog[k].path = filesToAnalyze[k]
  /\ pc = "failed" => failCause \in RunFailureCauses
  /\ pc = "done" =>
       /\ report # None
       /\ entry = "api" => jobs[JobId].status = "completed"

\* every kind of failure on the first file, a successful call on the second
C7_Witness ==
  /\ pc = "done"
  /\ entry = "api"
  /\ jobs[JobId].status = "completed"
  /\ Len(fileLog) = 2
  /\ fileLog[1].outcome = "network"
  /\ fileLog[2].outcome = "ok"
  /\ Len(jobs[JobId].report[1].files) = 2

\* C8 as stated: when initialize succeeded and every analyzeCodeContext call
\* of the run failed, modelUsed is not the name of the discovered model.
C8_ModelUsedTellsFailure ==
  ( /\ pc = "done"
    /\ ~startedSkip
    /\ ~initFailed
    /\ \E k \in LogIndexes : fileLog[k].outcome \in ServiceCalls
    /\ \A k \in LogIndexes : fileLog[k].outcome # "ok" )
  => report[1].modelUsed # modelName

\* C9 as stated: a listing that cannot be obtained, in the statistics or in
\* the discovery phase, ends the run failed with an error, and no report is
\* returned or saved.
C9_ListingFailureFailsRun ==
  /\ failCause \in {NoDirectory, "git log", "git ls-files"} =>
       /\ pc = "failed"
       /\ report = None
       /\ ~saved
       /\ entry = "api" =>
            (jobs[JobId].status = "failed" /\ jobs[JobId].error # NULL)
  /\ discoveryFailed =>
       /\ report = None
       /\ ~saved
       /\ pc # "done"
       /\ entry = "api" => jobs[JobId].status # "completed"

\* paths of the processed files whose content could be read
ReadablePaths ==
  LET readable == SelectSeq(fileLog, LAMBDA e : e.read # "unreadable")
  IN  [k \in 1..Len(readable) |-> readable[k].path]

\* C10 as stated: the verdict list has exactly one verdict for every selected
\* file whose content could be read, in selection order, and none for an
\* unreadable one.
C10_OneVerdictPerReadableFile ==
  AnalysisFinished =>
    [k \in 1..Len(analysisOut[1]) |-> analysisOut[1][k].path] = ReadablePaths

\* C11 as stated: every processed file whose content could be read, the
\* empty string included, has a verdict, and the verdict of an empty file
\* has metrics.lines = 1; only an unreadable file has none.
C11_NullOnlyWhenUnreadable ==
  \A k \in LogIndexes :
    /\ (fileLog[k].outcome = "noverdict") <=> (fileLog[k].read = "unreadable")
    /\ fileLog[k].read = "empty" =>
         \E v \in 1..Len(results) :
           results[v].path = fileLog[k].path /\ results[v].lines = 1

\* C13: files are analyzed one after the other; with AI analysis enabled the
\* k-th file starts after exactly k-1 delays, so a delay separates every two
\* successive files, n files take n-1 delays and none follows the last;
\* with AI analysis disabled no delay is ever taken.
C13_DelayBetweenFiles ==
  /\ \A k \in LogIndexes :
       fileLog[k].delaysBefore = (IF options.skipAnalysis THEN 0 ELSE k - 1)
  /\ pc = "sleep" => (~options.skipAnalysis /\ idx <= Len(filesToAnalyze))
  /\ options.skipAnalysis => delays = 0
  /\ AnalysisFinished =>
       delays = (IF options.skipAnalysis \/ Len(filesToAnalyze) = 0
                 THEN 0 ELSE Len(filesToAnalyze) - 1)

\* two files analyzed with the service, one delay between them
C13_Witness ==
  /\ pc = "done"
  /\ ~options.skipAnalysis
  /\ Len(fileLog) = 2
  /\ \A k \in 1..2 : fileLog[k].outcome \in ServiceCalls
  /\ fileLog[2].delaysBefore = 1
  /\ delays = 1

(***************************************************************************)
(* Backend: the Redis job store, processExcavation, the Kestra webhook and  *)
(* a poller.  Progress is kept in tenths of a percent (72.5 is 725); every  *)
(* Redis command is one step.                                               *)
(***************************************************************************)
\* jobStore.create: the job as first written
createdJob ==
  [status |-> "pending", progress |-> 0, result |-> FALSE, error |-> NULL]

\* jobStore.update: { ...job, ...updates }
merge(job, updates) ==
  [f \in DOMAIN job |-> IF f \in DOMAIN updates THEN updates[f] ELSE job[f]]

\* jobStore.setResult: the updates it passes to update
setResultUpdates ==
  [status |-> "completed", progress |-> 1000, result |-> TRUE]

\* the updates of a failure (catch of processExcavation, failed webhook)
failedUpdates(message) == [status |-> "failed", error |-> message]

\* the onProgress callback: 40 + progress * 0.5
onProgressValue(p) == 400 + p * 5

Upd(updates) == [kind |-> "update", updates |-> updates]
OnProgress(p) == Upd([progress |-> onProgressValue(p)])

\* the awaits of processExcavation, excavateRepository inlined
ProcPlan ==
  << Upd([status |-> "processing", progress |-> 50]),
     Upd([progress |-> 100]),
     Upd([progress |-> 200]),
     Upd([progress |-> 400]),
     [kind |-> "urlCheck"],
     OnProgress(10),
     [kind |-> "fetchCommits"],
     OnProgress(30),
     OnProgress(50),
     OnProgress(65),
     OnProgress(80),
     OnProgress(90),
     OnProgress(95),
     Upd([progress |-> 900]),
     Upd(setResultUpdates) >>

CatchStep == Len(ProcPlan) + 1
DoneStep == Len(ProcPlan) + 2

\* the step processExcavation is at; the catch block is one more update
procStepAt(k) ==
  IF k = CatchStep THEN Upd(failedUpdates("excavation error")) ELSE ProcPlan[k]

\* the step after step k completed normally
procAfter(k) == IF k >= Len(ProcPlan) THEN DoneStep ELSE k + 1

ProcRunning == procStep \in 1..CatchStep

\* POST /api/excavate: jobStore.create, then processExcavation runs up to
\* the redis.get of its first update
StartExcavationJob ==
  /\ procStep = 0
  /\ storeJob' = Some(createdJob)
  /\ procStep' = 1
  /\ procPhase' = "get"
  /\ UNCHANGED << procRead, hookPc, hookUpdates, hookRead, seenMax, seenDrop >>
  /\ UNCHANGED << unitVars, repoFiles, jobs, response, runVars >>

\* jobStore.update, first half: const job = await this.get(id); a missing
\* job makes update return null
ProcGet ==
  /\ ProcRunning
  /\ procStepAt(procStep).kind = "update"
  /\ procPhase = "get"
  /\ IF storeJob = None
     THEN /\ procStep' = procAfter(procStep)
          /\ UNCHANGED << procPhase, procRead >>
     ELSE /\ procRead' = storeJob
          /\ procPhase' = "set"
          /\ UNCHANGED procStep
  /\ UNCHANGED << storeJob, hookPc, hookUpdates, hookRead, seenMax, seenDrop >>
  /\ UNCHANGED << unitVars, repoFiles, jobs, response, runVars >>

\* jobStore.update, second half: redis.set of the merged job
ProcSet ==
  /\ ProcRunning
  /\ procStepAt(procStep).kind = "update"
  /\ procPhase = "set"
  /\ storeJob' = Some(merge(procRead[1], procStepAt(procStep).updates))
  /\ procStep' = procAfter(procStep)
  /\ procPhase' = "get"
  /\ procRead' = None
  /\ UNCHANGED << hookPc, hookUpdates, hookRead, seenMax, seenDrop >>
  /\ UNCHANGED << unitVars, repoFiles, jobs, response, runVars >>

\* excavateRepository: the repoUrl match, which throws 'Invalid GitHub URL'
\* (the GitHub push webhook starts runs with an unvalidated url)
ProcUrlCheck(matches) ==
  /\ ProcRunning
  /\ procStepAt(procStep).kind = "urlCheck"
  /\ procStep' = IF matches THEN procAfter(procStep) ELSE CatchStep
  /\ UNCHANGED << storeJob, procPhase, procRead, hookPc, hookUpdates,
                  hookRead, seenMax, seenDrop >>
  /\ UNCHANGED << unitVars, repoFiles, jobs, response, runVars >>

\* excavateRepository: fetchCommits, which throws on a GitHub API error
ProcFetchCommits(ok) ==
  /\ ProcRunning
  /\ procStepAt(procStep).kind = "fetchCommits"
  /\ procStep' = IF ok THEN procAfter(procStep) ELSE CatchStep
  /\ UNCHANGED << storeJob, procPhase, procRead, hookPc, hookUpdates,
                  hookRead, seenMax, seenDrop >>
  /\ UNCHANGED << unitVars, repoFiles, jobs, response, runVars >>

\* POST /api/webhook/kestra: the body decides between setResult, a failed
\* update and nothing
HookReceive(h, status, hasResult) ==
  /\ hookPc[h] = "idle"
  /\ IF status = "completed" /\ hasResult
     THEN /\ hookPc' = [hookPc EXCEPT ![h] = "get"]
          /\ hookUpdates' = [hookUpdates EXCEPT ![h] = setResultUpdates]
     ELSE IF status = "failed"
          THEN /\ hookPc' = [hookPc EXCEPT ![h] = "get"]
               /\ hookUpdates' = [hookUpdates EXCEPT
                                    ![h] = failedUpdates("Unknown error")]
          ELSE /\ hookPc' = [hookPc EXCEPT ![h] = "done"]
               /\ UNCHANGED hookUpdates
  /\ UNCHANGED << storeJob, procStep, procPhase, procRead, hookRead,
                  seenMax, seenDrop >>
  /\ UNCHANGED << unitVars, repoFiles, jobs, response, runVars >>

\* the webhook's jobStore.update, first half
HookGet(h) ==
  /\ hookPc[h] = "get"
  /\ IF storeJob = None
     THEN /\ hookPc' = [hookPc EXCEPT ![h] = "done"]
          /\ UNCHANGED hookRead
     ELSE /\ hookPc' = [hookPc EXCEPT ![h] = "set"]
          /\ hookRead' = [hookRead EXCEPT ![h] = storeJob]
  /\ UNCHANGED << storeJob, procStep, procPhase, procRead, hookUpdates,
                  seenMax, seenDrop >>
  /\ UNCHANGED << unitVars, repoFiles, jobs, response, runVars >>

\* the webhook's jobStore.update, second half
HookSet(h) ==
  /\ hookPc[h] = "set"
  /\ storeJob' = Some(merge(hookRead[h][1], hookUpdates[h]))
  /\ hookPc' = [hookPc EXCEPT ![h] = "done"]
  /\ hookRead' = [hookRead EXCEPT ![h] = None]
  /\ UNCHANGED << procStep, procPhase, procRead, hookUpdates, seenMax,
                  seenDrop >>
  /\ UNCHANGED << unitVars, repoFiles, jobs, response, runVars >>

\* GET /api/excavate/:jobId by a poller that compares with what it saw
PollJob ==
  /\ storeJob # None
  /\ seenDrop' = (seenDrop \/ storeJob[1].progress < seenMax)
  /\ seenMax' = IF storeJob[1].progress > seenMax
                THEN storeJob[1].progress ELSE seenMax
  /\ UNCHANGED << storeJob, procStep, procPhase, procRead, hookPc,
                  hookUpdates, hookRead >>
  /\ UNCHANGED << unitVars, repoFiles, jobs, response, runVars >>

\* the run-side variables stay at their initial values in the backend model
InitStore ==
  /\ Init
  /\ repoFiles = {PathBin, PathMd}

NextStore ==
  \/ StartExcavationJob
  \/ ProcGet
  \/ ProcSet
  \/ \E matches \in BOOLEAN : ProcUrlCheck(matches)
  \/ \E ok \in BOOLEAN : ProcFetchCommits(ok)
  \/ \E h \in Hooks, status \in {"completed", "failed", "running"},
        hasResult \in BOOLEAN : HookReceive(h, status, hasResult)
  \/ \E h \in Hooks : HookGet(h)
  \/ \E h \in Hooks : HookSet(h)
  \/ PollJob

SpecStore == InitStore /\ [][NextStore]_vars

(***************************************************************************)
(* Properties of the backend job store (specification SpecStore)            *)
(***************************************************************************)
\* C3 as stated: every progress value a poller observes for the job is at
\* least every value it observed earlier, whatever the interleaving of
\* processExcavation's updates with the Kestra webhook handler.
C3_ProgressNeverDecreases == ~seenDrop

(***************************************************************************)
(* One analyzeFile call, await by await: readFileSafe, getFileCommits (the  *)
(* log query, then one diff per commit), generate (the retry loop) and      *)
(* parseJson.                                                               *)
(***************************************************************************)
\* longest commit history of the file
MaxHistory == 3

\* GeminiSynthesisEngine.maxRetries
maxRetries == 3

\* the commits of a file that has n of them, newest (highest number) first
historyOf(n) == [k \in 1..n |-> n - k + 1]

\* values of options.maxCommitsPerFile a caller constructs the agent with
MaxCountOptions == {1, 2, DefaultMaxCommitsPerFile}

\* git.log({ file, maxCount }): the newest maxCount commits of the file
gitLog(history, maxCount) == slice0(history, maxCount)

\* a bug that leaves out a commit whose diff fetch failed
commitRecordDropsFailed(commits, commit, diffOk) ==
  IF diffOk THEN Append(commits, [hash |-> commit, diff |-> "text"])
  ELSE commits

\* commits.push({hash, ..., diff: diff?.slice(0, 1500)}): diff stays
\* undefined when git.diff threw
commitRecord(commits, commit, diffOk) ==
  Append(commits, [hash |-> commit,
                   diff |-> IF diffOk THEN "text" ELSE "absent"])

\* a bug that waits the same time after every failure
backoffFlat(att) == 2000

\* setTimeout(r, 2000 * attempt), attempt already incremented
backoff(att) == 2000 * att

\* a bug that retries without a limit
retryAgainAlways(att) == TRUE

\* while (attempt < this.maxRetries)
retryAgain(att) == att < maxRetries

\* the return statement of analyzeFile
fileVerdict(commits, analysis, outcome) ==
  Some([isNull |-> FALSE, commits |-> commits, analysis |-> analysis,
        outcome |-> outcome])

\* analyzeFile once getFileCommits returned: the service is called only when
\* enabled and the file has commits, else the verdict is returned at once
AfterCommits(commits) ==
  IF ~aSkip /\ Len(commits) > 0
  THEN /\ aPc' = "call"
       /\ UNCHANGED aResult
  ELSE /\ aPc' = "returned"
       /\ aResult' = fileVerdict(commits, NULL, "nocall")

\* readFileSafe and the `if (!content) return null` test
ReadFile(fileContent) ==
  /\ aPc = "read"
  /\ IF contentMissing(fileContent)
     THEN /\ aPc' = "returned"
          /\ aResult' = Some([isNull |-> TRUE, commits |-> <<>>,
                              analysis |-> NULL, outcome |-> "noverdict"])
     ELSE /\ aPc' = "log"
          /\ UNCHANGED aResult
  /\ UNCHANGED << aSkip, aMaxCount, aHistory, aLog, aCommits, attempt,
                  genCalls, genWaits >>
  /\ UNCHANGED << graphVars, reqVars, utilVars, insightVars, jobVars,
                  storeVars, repoFiles, jobs, response,
                  runVars >>

\* getFileCommits: await this.git.log(...); the outer catch returns []
GitLog(ok) ==
  /\ aPc = "log"
  /\ IF ok
     THEN /\ aLog' = Some(gitLog(aHistory, aMaxCount))
          /\ IF Len(gitLog(aHistory, aMaxCount)) = 0
             THEN AfterCommits(<<>>)
             ELSE aPc' = "diff" /\ UNCHANGED aResult
     ELSE /\ UNCHANGED aLog
          /\ AfterCommits(<<>>)
  /\ UNCHANGED << aSkip, aMaxCount, aHistory, aCommits, attempt, genCalls,
                  genWaits >>
  /\ UNCHANGED << graphVars, reqVars, utilVars, insightVars, jobVars,
                  storeVars, repoFiles, jobs, response,
                  runVars >>

\* getFileCommits: one iteration of `for (const commit of log.all)`
GitDiff(diffOk) ==
  /\ aPc = "diff"
  /\ LET commit == aLog[1][Len(aCommits) + 1]
         pushed == commitRecord(aCommits, commit, diffOk)
     IN  /\ aCommits' = pushed
         /\ IF Len(aCommits) + 1 < Len(aLog[1])
            THEN UNCHANGED << aPc, aResult >>
            ELSE AfterCommits(pushed)
  /\ UNCHANGED << aSkip, aMaxCount, aHistory, aLog, attempt, genCalls,
                  genWaits >>
  /\ UNCHANGED << graphVars, reqVars, utilVars, insightVars, jobVars,
                  storeVars, repoFiles, jobs, response,
                  runVars >>

\* generate: one pass of the try block; a success returns the text, which
\* analyzeCodeContext hands to parseJson, whose throw analyzeFile catches
GenerateContent(answer) ==
  /\ aPc = "call"
  /\ genCalls' = genCalls + 1
  /\ IF answer.raised
     THEN /\ attempt' = attempt + 1
          /\ aPc' = "wait"
          /\ UNCHANGED aResult
     ELSE /\ aPc' = "returned"
          /\ aResult' = fileVerdict(aCommits,
                                    analyzeCodeContext(answer).analysis,
                                    analyzeCodeContext(answer).outcome)
          /\ UNCHANGED attempt
  /\ UNCHANGED << aSkip, aMaxCount, aHistory, aLog, aCommits, genWaits >>
  /\ UNCHANGED << graphVars, reqVars, utilVars, insightVars, jobVars,
                  storeVars, repoFiles, jobs, response,
                  runVars >>

\* generate: the timeout of the catch block, then the loop test; when the
\* loop ends `throw lastError` reaches the catch of analyzeFile
Backoff ==
  /\ aPc = "wait"
  /\ genWaits' = Append(genWaits, backoff(attempt))
  /\ IF retryAgain(attempt)
     THEN /\ aPc' = "call"
          /\ UNCHANGED aResult
     ELSE /\ aPc' = "returned"
          /\ aResult' = fileVerdict(aCommits, NULL, "network")
  /\ UNCHANGED << aSkip, aMaxCount, aHistory, aLog, aCommits, attempt,
                  genCalls >>
  /\ UNCHANGED << graphVars, reqVars, utilVars, insightVars, jobVars,
                  storeVars, repoFiles, jobs, response,
                  runVars >>

\* an analyzeFile call about to read its file
InitFile ==
  /\ StoreInit
  /\ RunInit
  /\ UtilsAtRest
  /\ InsightsAtRest
  /\ JobsAtRest
  /\ repoFiles = {PathBin, PathMd}
  /\ GraphAtRest
  /\ RequestsAtRest
  /\ aPc = "read"
  /\ aSkip \in BOOLEAN
  /\ aMaxCount \in MaxCountOptions
  /\ aHistory \in {historyOf(n) : n \in 0..MaxHistory}
  /\ aLog = None
  /\ aCommits = <<>>
  /\ attempt = 0
  /\ genCalls = 0
  /\ genWaits = <<>>
  /\ aResult = None

NextFile ==
  \/ \E fileContent \in ReadResults : ReadFile(fileContent)
  \/ \E ok \in BOOLEAN : GitLog(ok)
  \/ \E diffOk \in BOOLEAN : GitDiff(diffOk)
  \/ \E answer \in ServiceAnswers : GenerateContent(answer)
  \/ Backoff

SpecFile == InitFile /\ [][NextFile]_vars

\* the event loop resumes every settled await: a timer fires, and a git or
\* service request ends with an answer or an error
SpecFileFair == SpecFile /\ WF_vars(NextFile)

(***************************************************************************)
(* Properties of one analyzeFile call (specifications SpecFile and          *)
(* SpecFileFair)                                                            *)
(***************************************************************************)
\* getFileCommits has returned
CommitsReturned == aPc \in {"call", "wait", "returned"}

\* C12: getFileCommits gives one record for every commit the log query
\* returned, in the same newest-first order, at most maxCommitsPerFile of
\* them; a failed diff fetch only leaves that record without a diff, and the
\* later commits are still fetched.
C12_OneRecordPerLoggedCommit ==
  /\ Len(aCommits) <= aMaxCount
  /\ aLog = None => aCommits = <<>>
  /\ aLog # None =>
       /\ [k \in 1..Len(aCommits) |-> aCommits[k].hash]
            = SubSeq(aLog[1], 1, Len(aCommits))
       /\ CommitsReturned => Len(aCommits) = Len(aLog[1])
  /\ \A j, k \in 1..Len(aCommits) :
       j < k => aCommits[j].hash > aCommits[k].hash
  /\ (aResult # None /\ ~aResult[1].isNull) => aResult[1].commits = aCommits

\* a history of three cut to two; the diff of the newest commit failed, the
\* older commit was still fetched
C12_Witness ==
  /\ aPc = "returned"
  /\ Len(aHistory) = 3
  /\ aMaxCount = 2
  /\ aCommits = << [hash |-> 3, diff |-> "absent"],
                   [hash |-> 2, diff |-> "text"] >>

\* what holds of generate at every moment
GenerateBounded ==
  /\ genCalls <= maxRetries
  /\ attempt <= maxRetries
  /\ genWaits = [k \in 1..Len(genWaits) |-> 2000 * k]
  /\ aPc = "wait" => (Len(genWaits) = attempt - 1 /\ genCalls = attempt)
  /\ aPc = "call" => (Len(genWaits) = attempt /\ genCalls = attempt)
  /\ (aResult # None /\ aResult[1].outcome = "network") =>
       /\ genCalls = maxRetries
       /\ genWaits = << 2000, 4000, 6000 >>
       /\ ~aResult[1].isNull
       /\ aResult[1].analysis = NULL
  /\ (aResult # None /\ aResult[1].outcome \in {"ok", "empty", "unparsable"}) =>
       /\ genCalls = attempt + 1
       /\ Len(genWaits) = attempt
       /\ ~aResult[1].isNull

\* C14: generate calls the model at most 3 times, stops at the first
\* success, waits 2000*k ms after the k-th failure and raises after the
\* third; analyzeFile turns that into a verdict with analysis null; every
\* call of generate comes to an end.
C14_GenerateTerminates ==
  /\ []GenerateBounded
  /\ (aPc = "call") ~> (aPc = "returned")

\* two failures, then a success on the third call
C14_Witness ==
  /\ aPc = "returned"
  /\ aResult[1].outcome = "ok"
  /\ genCalls = 3
  /\ genWaits = << 2000, 4000 >>

(***************************************************************************)
(* The express API server: POST /api/excavate and POST /api/analyze/file    *)
(* handled concurrently, one step per await; both use the module-level      *)
(* variable gitAnalyzer.                                                    *)
(***************************************************************************)
\* number of requests in the model
MaxReqs == 2

Reqs == 1..MaxReqs

\* repositories the requests name
RepoNames == {"/repoA", "/repoB"}

\* a request slot nothing has arrived in
noRequest == [kind |-> "none", repoPath |-> "", pc |-> "none", used |-> {}]

\* a GitAnalyzer method called on the object the variable gitAnalyzer holds
\* at the time of the call: the answer is about that object's repository
callOn(analyzer, what) == [what |-> what, repo |-> analyzer[1]]

\* catch (error) { res.status(500).json(...) }
Respond500(r) == reqs' = [reqs EXCEPT ![r].pc = "error"]

\* a request arrives; the handler runs up to `await gemini.initialize()`
RequestArrives(r, kind, repoPath) ==
  /\ reqs[r].pc = "none"
  /\ reqs' = [reqs EXCEPT ![r] = [kind |-> kind, repoPath |-> repoPath,
                                  pc |-> "gemini", used |-> {}]]
  /\ UNCHANGED gitAnalyzer
  /\ UNCHANGED << fileVars, graphVars, utilVars, insightVars, jobVars,
                  storeVars, repoFiles, jobs, response,
                  runVars >>

\* gemini.initialize() settled.  excavate: gitAnalyzer = new GitAnalyzer(
\* repoPath) and its initialize() is awaited.  analyze/file: the same only
\* if (!gitAnalyzer), else getFileHistory is called on gitAnalyzer
GeminiReady(r, ok) ==
  /\ reqs[r].pc = "gemini"
  /\ IF ~ok
     THEN Respond500(r) /\ UNCHANGED gitAnalyzer
     ELSE IF reqs[r].kind = "excavate" \/ gitAnalyzer = None
          THEN /\ gitAnalyzer' = Some(reqs[r].repoPath)
               /\ reqs' = [reqs EXCEPT ![r].pc = "analyzerInit"]
          ELSE /\ reqs' = [reqs EXCEPT
                             ![r].pc = "fileHistory",
                             ![r].used = @ \cup {callOn(gitAnalyzer, "fileHistory")}]
               /\ UNCHANGED gitAnalyzer
  /\ UNCHANGED << fileVars, graphVars, utilVars, insightVars, jobVars,
                  storeVars, repoFiles, jobs, response,
                  runVars >>

\* gitAnalyzer.initialize() settled: the next statement calls
\* gitAnalyzer.getRepositoryInfo() (excavate) or getFileHistory (analyze/file)
AnalyzerReady(r, ok) ==
  /\ reqs[r].pc = "analyzerInit"
  /\ IF ~ok
     THEN Respond500(r)
     ELSE IF reqs[r].kind = "excavate"
          THEN reqs' = [reqs EXCEPT
                          ![r].pc = "repoInfo",
                          ![r].used = @ \cup {callOn(gitAnalyzer, "repoInfo")}]
          ELSE reqs' = [reqs EXCEPT
                          ![r].pc = "fileHistory",
                          ![r].used = @ \cup {callOn(gitAnalyzer, "fileHistory")}]
  /\ UNCHANGED gitAnalyzer
  /\ UNCHANGED << fileVars, graphVars, utilVars, insightVars, jobVars,
                  storeVars, repoFiles, jobs, response,
                  runVars >>

\* getRepositoryInfo() settled: gitAnalyzer.getCommitHistory(20) is called
RepositoryInfoReady(r, ok) ==
  /\ reqs[r].pc = "repoInfo"
  /\ IF ~ok
     THEN Respond500(r)
     ELSE reqs' = [reqs EXCEPT
                     ![r].pc = "commitHistory",
                     ![r].used = @ \cup {callOn(gitAnalyzer, "commitHistory")}]
  /\ UNCHANGED gitAnalyzer
  /\ UNCHANGED << fileVars, graphVars, utilVars, insightVars, jobVars,
                  storeVars, repoFiles, jobs, response,
                  runVars >>

\* getCommitHistory() settled: gitAnalyzer.getTrackedFiles() is called
CommitHistoryReady(r, ok) ==
  /\ reqs[r].pc = "commitHistory"
  /\ IF ~ok
     THEN Respond500(r)
     ELSE reqs' = [reqs EXCEPT
                     ![r].pc = "trackedFiles",
                     ![r].used = @ \cup {callOn(gitAnalyzer, "trackedFiles")}]
  /\ UNCHANGED gitAnalyzer
  /\ UNCHANGED << fileVars, graphVars, utilVars, insightVars, jobVars,
                  storeVars, repoFiles, jobs, response,
                  runVars >>

\* getTrackedFiles() (excavate) or getFileHistory() and the file read
\* (analyze/file) settled: gemini.analyzeCodeContext is awaited
GitDataReady(r, ok) ==
  /\ reqs[r].pc \in {"trackedFiles", "fileHistory"}
  /\ IF ~ok
     THEN Respond500(r)
     ELSE reqs' = [reqs EXCEPT ![r].pc = "analysis"]
  /\ UNCHANGED gitAnalyzer
  /\ UNCHANGED << fileVars, graphVars, utilVars, insightVars, jobVars,
                  storeVars, repoFiles, jobs, response,
                  runVars >>

\* analyzeCodeContext settled: res.json with the data gathered
AnalysisReady(r, ok) ==
  /\ reqs[r].pc = "analysis"
  /\ IF ~ok
     THEN Respond500(r)
     ELSE reqs' = [reqs EXCEPT ![r].pc = "answered"]
  /\ UNCHANGED gitAnalyzer
  /\ UNCHANGED << fileVars, graphVars, utilVars, insightVars, jobVars,
                  storeVars, repoFiles, jobs, response,
                  runVars >>

\* the server after app.listen
InitRequests ==
  /\ StoreInit
  /\ RunInit
  /\ UtilsAtRest
  /\ InsightsAtRest
  /\ JobsAtRest
  /\ repoFiles = {PathBin, PathMd}
  /\ FileAtRest
  /\ GraphAtRest
  /\ gitAnalyzer = None
  /\ reqs = [r \in Reqs |-> noRequest]

NextRequests ==
  \/ \E r \in Reqs, kind \in {"excavate", "analyzeFile"}, repoPath \in RepoNames :
       RequestArrives(r, kind, repoPath)
  \/ \E r \in Reqs, ok \in BOOLEAN : GeminiReady(r, ok)
  \/ \E r \in Reqs, ok \in BOOLEAN : AnalyzerReady(r, ok)
  \/ \E r \in Reqs, ok \in BOOLEAN : RepositoryInfoReady(r, ok)
  \/ \E r \in Reqs, ok \in BOOLEAN : CommitHistoryReady(r, ok)
  \/ \E r \in Reqs, ok \in BOOLEAN : GitDataReady(r, ok)
  \/ \E r \in Reqs, ok \in BOOLEAN : AnalysisReady(r, ok)

SpecRequests == InitRequests /\ [][NextRequests]_vars

(***************************************************************************)
(* Properties of the express API server (specification SpecRequests)        *)
(***************************************************************************)
\* C15 as stated: the repository info, commit history, tracked files and
\* file history a request is answered with are those of the repoPath the
\* same request named, whatever other requests are handled meanwhile.
C15_RequestsUseOwnRepository ==
  \A r \in Reqs : \A u \in reqs[r].used : u.repo = reqs[r].repoPath

(***************************************************************************)
(* buildKnowledgeGraph(files, stats) as a function of its arguments.        *)
(* Ids are the strings the template literals build; weights are in tenths   *)
(* (0.8 is 8, 1 is 10).                                                     *)
(***************************************************************************)
\* largest number of verdicts handed to buildKnowledgeGraph
MaxVerdicts == 2

\* definitions.slice(0, 5) and topAuthors.slice(0, 5)
GraphSliceLimit == 5

GPathA  == <<"a",".","t","s">>
GPathDA == <<"d","/","a",".","t","s">>
GPathU  == <<"u",".","t","s">>

\* paths of the verdicts: two files with the same basename, one more file
GraphPaths == {GPathA, GPathDA, GPathU}

DefFunF == <<"f","u","n","c","t","i","o","n",":","f">>
DefClsF == <<"c","l","a","s","s",":","f">>
DefFunG == <<"f","u","n","c","t","i","o","n",":","g">>
DefFunH == <<"f","u","n","c","t","i","o","n",":","h">>
DefFunI == <<"f","u","n","c","t","i","o","n",":","i">>
DefFunJ == <<"f","u","n","c","t","i","o","n",":","j">>
DefFunK == <<"f","u","n","c","t","i","o","n",":","k">>

\* metrics.definitions lists as extractDefinitions gives them: one tag per
\* match, a name matched twice is listed twice
DefinitionLists ==
  { <<DefFunF>>, <<DefFunF, DefClsF>>, <<DefFunF, DefFunF>>,
    <<DefFunF, DefFunG, DefFunH, DefFunI, DefFunJ, DefFunK>> }

ImpDotU    == <<".","/","u">>
ImpReact   == <<"r","e">>
ImpDot     == <<".">>
ImpDotSl   == <<".","/">>
ImpUpA     == <<".",".","/","a">>

\* metrics.imports lists as extractImports gives them
ImportLists ==
  { <<ImpDotU>>, <<ImpReact>>, <<ImpDot>>, <<ImpDotSl>>, <<ImpUpA, ImpDotU>> }

\* commit authors of a file's commit slice, newest first
CommitSlices == { <<"ann">>, <<"ann", "bob">>, <<"bob", "bob">> }

\* a FileAnalysis as analyzeFile returns it: authors are the distinct
\* authors of its commits
verdictOf(path, definitions, imports, commits) ==
  [path |-> path, definitions |-> definitions, imports |-> imports,
   commits |-> commits, authors |-> Dedup(commits)]

\* the verdicts the graph builder is tried on
VerdictSet ==
  {verdictOf(path, <<>>, <<>>, <<>>) : path \in GraphPaths} \cup
  {verdictOf(path, ds, <<>>, <<>>) : path \in GraphPaths, ds \in DefinitionLists} \cup
  {verdictOf(path, <<>>, is, <<>>) : path \in GraphPaths, is \in ImportLists} \cup
  {verdictOf(path, <<>>, <<>>, cs) : path \in GraphPaths, cs \in CommitSlices} \cup
  {verdictOf(path, <<DefFunF, DefClsF>>, <<ImpDotU>>, <<"ann", "bob">>) :
     path \in GraphPaths}

\* lists of verdicts analyzeFiles can return: the selection has no path twice
VerdictLists ==
  {fs \in SeqsUpTo(VerdictSet, MaxVerdicts) :
     \A j, k \in 1..Len(fs) : fs[j].path = fs[k].path => j = k}

\* stats.topAuthors (names): the values of a Map keyed by name, so no name
\* twice; at most 10
TopAuthorLists ==
  { <<>>, <<"ann">>, <<"bob", "ann">>,
    <<"c1", "c2", "c3", "c4", "c5", "bob">> }

RECURSIVE Concat(_)
\* the concatenation of a sequence of sequences
Concat(ss) == IF ss = <<>> THEN <<>> ELSE Head(ss) \o Concat(Tail(ss))

\* the name of an author as the characters of a template literal; names are
\* kept whole
authorChars(name) == <<name>>

RECURSIVE splitOn(_, _)
\* String.prototype.split(c)
splitOn(str, c) ==
  IF ~InSeq(str, c) THEN <<str>>
  ELSE LET i == CHOOSE k \in 1..Len(str) :
                  str[k] = c /\ \A m \in 1..(k-1) : str[m] # c
       IN  <<SubSeq(str, 1, i - 1)>> \o splitOn(SubSeq(str, i + 1, Len(str)), c)

\* `file:${file.path}`
fileNodeId(path) == <<"f","i","l","e",":">> \o path

\* `${type}:${file.path}:${name}` with [type, name] = def.split(":")
defNodeId(path, def) ==
  splitOn(def, ":")[1] \o <<":">> \o path \o <<":">> \o splitOn(def, ":")[2]

\* a bug that leaves the path out of the target of a defines edge
definesTargetNoPath(path, def) ==
  splitOn(def, ":")[1] \o <<":">> \o splitOn(def, ":")[2]

\* the target of the defines edge, written out again in edges.push
definesTarget(path, def) ==
  splitOn(def, ":")[1] \o <<":">> \o path \o <<":">> \o splitOn(def, ":")[2]

\* `author:${author.name}`
authorNodeId(name) == <<"a","u","t","h","o","r",":">> \o authorChars(name)

\* the nodes and the defines edges the first loop pushes for one file
fileNodes(file) ==
  LET defs == slice0(file.definitions, GraphSliceLimit)
  IN  << [id |-> fileNodeId(file.path), type |-> "file"] >> \o
      [k \in 1..Len(defs) |->
         [id |-> defNodeId(file.path, defs[k]),
          type |-> splitOn(defs[k], ":")[1]]]

definesEdges(file) ==
  LET defs == slice0(file.definitions, GraphSliceLimit)
  IN  [k \in 1..Len(defs) |->
         [source |-> fileNodeId(file.path),
          target |-> definesTarget(file.path, defs[k]),
          relationship |-> "defines", weight |-> 10]]

\* a bug that weighs an authored edge by all the commits of the file
authoredWeightAllCommits(file, author) == 10 * Len(file.commits)

\* file.commits.filter((c) => c.author === author.name).length
authoredWeight(file, author) ==
  10 * Len(SelectSeq(file.commits, LAMBDA c : c = author))

\* the authored edges the second loop pushes for one author
authoredEdges(files, author) ==
  LET mine == SelectSeq(files, LAMBDA f : InSeq(f.authors, author))
  IN  [k \in 1..Len(mine) |->
         [source |-> authorNodeId(author),
          target |-> fileNodeId(mine[k].path),
          relationship |-> "authored",
          weight |-> authoredWeight(mine[k], author)]]

\* imp.replace(/^prefix/, "")
stripLeading(imp, prefix) ==
  IF IsPrefix(prefix, imp) THEN SubSeq(imp, Len(prefix) + 1, Len(imp)) ELSE imp

\* a bug that forgets the ../ alternative
importMatchesDotSlashOnly(path, imp) ==
  includes(path, stripLeading(imp, <<".", "/">>))

\* the predicate of files.find in the import loop
importMatches(path, imp) ==
  \/ includes(path, stripLeading(imp, <<".", "/">>))
  \/ includes(path, stripLeading(imp, <<".", ".", "/">>))

\* files.find(...): the index of the first match, 0 for undefined
matchingFile(files, imp) ==
  IF \E k \in 1..Len(files) : importMatches(files[k].path, imp)
  THEN CHOOSE k \in 1..Len(files) :
         /\ importMatches(files[k].path, imp)
         /\ \A m \in 1..(k-1) : ~importMatches(files[m].path, imp)
  ELSE 0

\* the imports edges the third loop pushes for one file
importsEdges(files, file) ==
  Concat([k \in 1..Len(file.imports) |->
     IF matchingFile(files, file.imports[k]) = 0 THEN <<>>
     ELSE << [source |-> fileNodeId(file.path),
              target |-> fileNodeId(files[matchingFile(files, file.imports[k])].path),
              relationship |-> "imports", weight |-> 8] >>])

\* path.dirname
dirname(path) ==
  IF LastIndexOf(path, "/") = 0 THEN <<".">>
  ELSE SubSeq(path, 1, LastIndexOf(path, "/") - 1)

\* the clusters: one per directory holding more than one of the files, in
\* the order the directories first appear
\* dir || "root": the default applies to the empty string only
clusterName(dir) ==
  IF dir = <<>> THEN <<"r", "o", "o", "t">> ELSE dir

clustersOf(files) ==
  LET dirs == Dedup([k \in 1..Len(files) |-> dirname(files[k].path)])
      inDir(d) == SelectSeq(files, LAMBDA f : dirname(f.path) = d)
      big == SelectSeq(dirs, LAMBDA d : Len(inDir(d)) > 1)
  IN  [k \in 1..Len(big) |->
         [name |-> clusterName(big[k]),
          nodeIds |-> [j \in 1..Len(inDir(big[k])) |->
                         fileNodeId(inDir(big[k])[j].path)]]]

\* buildKnowledgeGraph: { nodes, edges, clusters }
buildKnowledgeGraph(files, topAuthors) ==
  LET authors == slice0(topAuthors, GraphSliceLimit)
  IN  [nodes |->
         Concat([k \in 1..Len(files) |-> fileNodes(files[k])]) \o
         [k \in 1..Len(authors) |->
            [id |-> authorNodeId(authors[k]), type |-> "author"]],
       edges |->
         Concat([k \in 1..Len(files) |-> definesEdges(files[k])]) \o
         Concat([k \in 1..Len(authors) |-> authoredEdges(files, authors[k])]) \o
         Concat([k \in 1..Len(files) |-> importsEdges(files, files[k])]),
       clusters |-> clustersOf(files)]

\* the call of phase 4 on some verdict list and statistics
CallBuildKnowledgeGraph ==
  /\ graph = None
  /\ graph' = Some(buildKnowledgeGraph(gFiles, gTopAuthors))
  /\ UNCHANGED << gFiles, gTopAuthors >>
  /\ UNCHANGED << fileVars, reqVars, utilVars, insightVars, jobVars,
                  storeVars, repoFiles, jobs, response,
                  runVars >>

InitGraph ==
  /\ StoreInit
  /\ RunInit
  /\ UtilsAtRest
  /\ InsightsAtRest
  /\ JobsAtRest
  /\ repoFiles = {PathBin, PathMd}
  /\ FileAtRest
  /\ RequestsAtRest
  /\ gFiles \in VerdictLists
  /\ gTopAuthors \in TopAuthorLists
  /\ graph = None

NextGraph == CallBuildKnowledgeGraph

SpecGraph == InitGraph /\ [][NextGraph]_vars

(***************************************************************************)
(* Properties of buildKnowledgeGraph (specification SpecGraph)              *)
(***************************************************************************)
GraphNodes == graph[1].nodes
GraphEdges == graph[1].edges
EdgesOf(relationship) ==
  SelectSeq(GraphEdges, LAMBDA e : e.relationship = relationship)
IsNodeId(id) == \E n \in 1..Len(GraphNodes) : GraphNodes[n].id = id

\* C16: every edge of the returned graph, defines, authored or imports, has
\* a source and a target that are ids of returned nodes.
C16_EdgesJoinNodes ==
  graph # None =>
    \A e \in 1..Len(GraphEdges) :
      IsNodeId(GraphEdges[e].source) /\ IsNodeId(GraphEdges[e].target)

\* a graph with a defines, an authored and an imports edge
C16_Witness ==
  /\ graph # None
  /\ Len(EdgesOf("defines")) > 0
  /\ Len(EdgesOf("authored")) > 0
  /\ Len(EdgesOf("imports")) > 0

\* C17 as stated: for verdicts with pairwise distinct paths, also when a
\* definitions list names the same kind:name tag twice, no two returned
\* nodes have the same id.
C17_NodeIdsUnique ==
  graph # None =>
    \A m, n \in 1..Len(GraphNodes) :
      GraphNodes[m].id = GraphNodes[n].id => m = n

\* C18 as stated: no imports edge has its source equal to its target,
\* whatever the import string.
C18_NoSelfImport ==
  graph # None =>
    \A e \in 1..Len(GraphEdges) :
      GraphEdges[e].relationship = "imports" =>
        GraphEdges[e].source # GraphEdges[e].target

\* the import string with a single leading "./" or "../" stripped
strippedOnce(imp) ==
  IF IsPrefix(<<".", "/">>, imp) THEN SubSeq(imp, 3, Len(imp))
  ELSE IF IsPrefix(<<".", ".", "/">>, imp) THEN SubSeq(imp, 4, Len(imp))
       ELSE imp

\* the verdicts whose path contains the stripped import string, in list order
ContainingVerdicts(imp) ==
  SelectSeq(gFiles, LAMBDA f : includes(f.path, strippedOnce(imp)))

\* the imports edges the claim describes for one verdict
ExpectedImports(file) ==
  Concat([k \in 1..Len(file.imports) |->
     IF ContainingVerdicts(file.imports[k]) = <<>> THEN <<>>
     ELSE << [source |-> fileNodeId(file.path),
              target |-> fileNodeId(ContainingVerdicts(file.imports[k])[1].path),
              relationship |-> "imports", weight |-> 8] >>])

\* C19: each import string of each verdict gives exactly one imports edge of
\* weight 0.8 to the first verdict, in list order, whose path contains the
\* import string with a single leading "./" or "../" stripped, and no edge
\* when no verdict path contains it.
C19_ImportEdgePerMatch ==
  graph # None =>
    EdgesOf("imports") =
      Concat([k \in 1..Len(gFiles) |-> ExpectedImports(gFiles[k])])

\* "../a" then "./u" in d/a.ts, with verdicts u.ts and a.ts after it: "../a"
\* matches d/a.ts itself first, "./u" gives d/a.ts -> u.ts
C19_Witness ==
  /\ graph # None
  /\ Len(gFiles) = 2
  /\ gFiles[1].path = GPathDA
  /\ gFiles[1].imports = <<ImpUpA, ImpDotU>>
  /\ gFiles[2].path = GPathU
  /\ Len(EdgesOf("imports")) = 2
  /\ EdgesOf("imports")[2].target = fileNodeId(GPathU)

\* the authored edges from an author to a file
AuthoredBetween(author, path) ==
  SelectSeq(GraphEdges, LAMBDA e :
     /\ e.relationship = "authored"
     /\ e.source = authorNodeId(author)
     /\ e.target = fileNodeId(path))

\* the authors that get a node: the first 5 of stats.topAuthors
NodeAuthors ==
  {gTopAuthors[k] : k \in 1..Min(GraphSliceLimit, Len(gTopAuthors))}

\* number of commits by an author in a verdict's commit slice
CommitsBy(file, author) ==
  Cardinality({k \in 1..Len(file.commits) : file.commits[k] = author})

\* C20: for every author among the first 5 of stats.topAuthors and every
\* verdict whose authors contain that author there is exactly one authored
\* edge, weighing the author's commits in that file's commit slice (at least
\* 1, at most maxCommitsPerFile); no other pair has an authored edge.
C20_AuthoredEdgeWeights ==
  graph # None =>
    /\ \A a \in NodeAuthors : \A k \in 1..Len(gFiles) :
         IF InSeq(gFiles[k].authors, a)
         THEN /\ Len(AuthoredBetween(a, gFiles[k].path)) = 1
              /\ AuthoredBetween(a, gFiles[k].path)[1].weight
                   = 10 * CommitsBy(gFiles[k], a)
              /\ CommitsBy(gFiles[k], a) >= 1
              /\ CommitsBy(gFiles[k], a) <= DefaultMaxCommitsPerFile
         ELSE AuthoredBetween(a, gFiles[k].path) = <<>>
    /\ Len(EdgesOf("authored")) =
         Cardinality({<<a, k>> \in NodeAuthors \X (1..Len(gFiles)) :
                        InSeq(gFiles[k].authors, a)})

\* ann and bob both among the top authors; one file with one commit of
\* each, another with two commits of bob
C20_Witness ==
  /\ graph # None
  /\ gTopAuthors = <<"bob", "ann">>
  /\ Len(gFiles) = 2
  /\ gFiles[1].commits = <<"ann", "bob">>
  /\ gFiles[2].commits = <<"bob", "bob">>
  /\ Len(EdgesOf("authored")) = 3
  /\ AuthoredBetween("bob", gFiles[2].path)[1].weight = 20

\* the files of the list that sit at the top level of the repository
TopLevelFiles ==
  SelectSeq(gFiles, LAMBDA f : LastIndexOf(f.path, "/") = 0)

\* C21: when two or more analyzed files sit at the top level of the
\* repository, the graph has a cluster named "root" holding their nodes.
C21_TopLevelClusterIsRoot ==
  (graph # None /\ Len(TopLevelFiles) >= 2) =>
     \E k \in 1..Len(graph[1].clusters) :
        /\ graph[1].clusters[k].name = <<"r", "o", "o", "t">>
        /\ graph[1].clusters[k].nodeIds =
             [j \in 1..Len(TopLevelFiles) |-> fileNodeId(TopLevelFiles[j].path)]

(***************************************************************************)
(* The pure functions of utils.ts, each called on drawn inputs              *)
(* (specification SpecUtils)                                                *)
(***************************************************************************)
MaxIgnoreCalls == 2
MaxDecls == 3

PathMyBin  == <<"m","y","b","i","n","/","x",".","t","s">>
PathSrcBin == <<"s","r","c","/","b","i","n","/","x",".","t","s">>
PathSrcX   == <<"s","r","c","/","x",".","t","s">>
PathDeps   == <<"l","i","b","/","n","o","d","e","_","m","o","d","u","l","e","s",
                "/","y",".","j","s">>
PathCabinet == <<"s","r","c","/","c","a","b","i","n","e","t",".","t","s">>
PathNodeMd == <<"n","o","d","e","_","m","o","d","u","l","e","s","/","r",".","m","d">>

UtilPaths == {PathMyBin, PathSrcBin, PathSrcX, PathDeps, PathCabinet,
              PathNodeMd, PathA, PathU, PathBin, PathMd}

\* a call of shouldIgnorePath(pPath)
CallShouldIgnorePath ==
  /\ pPath # <<>>
  /\ Len(pAnswers) < MaxIgnoreCalls
  /\ pAnswers' = Append(pAnswers, shouldIgnorePath(pPath))
  /\ UNCHANGED << pPath, pDiscovered, dCode, dLanguage, dDefs, mInput, mScore >>
  /\ UNCHANGED << fileVars, graphVars, reqVars, insightVars, jobVars, storeVars,
                  repoFiles, jobs, response, runVars >>

\* discoverFiles when git ls-files lists pPath alone
FilterListedFile ==
  /\ pPath # <<>>
  /\ pDiscovered = None
  /\ pDiscovered' = Some(sourceFilter(<<pPath>>))
  /\ UNCHANGED << pPath, pAnswers, dCode, dLanguage, dDefs, mInput, mScore >>
  /\ UNCHANGED << fileVars, graphVars, reqVars, insightVars, jobVars, storeVars,
                  repoFiles, jobs, response, runVars >>

\* A source text is a sequence of declarations, each standing for the text
\* one of the patterns matches: "function f", "const f = (", "class f",
\* "interface f", "type f", "def f(".
DeclKinds == {"function", "const", "class", "interface", "type", "def"}
Decl(kind, name) == [kind |-> kind, name |-> name]
Decls == { Decl("function", <<"f">>), Decl("const", <<"g">>),
           Decl("class", <<"C">>), Decl("interface", <<"I">>),
           Decl("type", <<"T">>), Decl("def", <<"h">>) }
Codes == SeqsUpTo(Decls, MaxDecls)
Languages == {"typescript", "javascript", "python", "go"}

FunctionChars  == <<"f","u","n","c","t","i","o","n">>
ClassChars     == <<"c","l","a","s","s">>
InterfaceChars == <<"i","n","t","e","r","f","a","c","e">>
TypeChars      == <<"t","y","p","e">>

\* code.matchAll(pattern): the matches of one pattern, in text order
matchAll(code, kind) == SelectSeq(code, LAMBDA d : d.kind = kind)

\* the loop pushing one tag per match
pushTags(matches, typeChars) ==
  [k \in 1..Len(matches) |-> typeChars \o <<":">> \o matches[k].name]

\* extractDefinitions: one pass over the text per pattern
extractDefinitions(code, language) ==
  (IF language \in {"typescript", "javascript"}
   THEN pushTags(matchAll(code, "function"), FunctionChars) \o
        pushTags(matchAll(code, "const"), FunctionChars) \o
        pushTags(matchAll(code, "class"), ClassChars) \o
        pushTags(matchAll(code, "interface"), InterfaceChars) \o
        pushTags(matchAll(code, "type"), TypeChars)
   ELSE <<>>) \o
  (IF language = "python"
   THEN pushTags(matchAll(code, "def"), FunctionChars) \o
        pushTags(matchAll(code, "class"), ClassChars)
   ELSE <<>>)

\* a call of extractDefinitions(dCode, dLanguage)
CallExtractDefinitions ==
  /\ dLanguage # "none"
  /\ dDefs = None
  /\ dDefs' = Some(extractDefinitions(dCode, dLanguage))
  /\ UNCHANGED << pPath, pAnswers, pDiscovered, dCode, dLanguage, mInput, mScore >>
  /\ UNCHANGED << fileVars, graphVars, reqVars, insightVars, jobVars, storeVars,
                  repoFiles, jobs, response, runVars >>

\* The measures estimateMaintainability takes of its text: the number of
\* lines (at least 1, the empty text has one line), calculateComplexity (at
\* least 1), the lines longer than 120 characters, the comment-looking lines.
LineCounts == {1, 20, 100, 101, 300, 301, 500, 501}
Complexities == {1, 15, 16, 30, 31, 50, 51}
LongLineCounts == {0, 10, 11}
CommentLineCounts(lines) ==
  {0, (lines - 1) \div 20, Min(lines, ((lines - 1) \div 20) + 1), lines}
Measures ==
  { [lines |-> l, complexity |-> c, longLines |-> g, commentLines |-> k] :
      l \in LineCounts, c \in Complexities,
      g \in LongLineCounts, k \in UNION {CommentLineCounts(n) : n \in LineCounts} }
MeasuresOfTexts ==
  { m \in Measures : /\ m.longLines <= m.lines
                     /\ m.commentLines \in CommentLineCounts(m.lines) }

\* a bug that writes the line-count tests as independent ifs
lineCountPenaltyAdds(lines) ==
  (IF lines > 500 THEN 20 ELSE 0) + (IF lines > 300 THEN 10 ELSE 0)
  + (IF lines > 100 THEN 5 ELSE 0)

\* the if / else if chain on the line count
lineCountPenalty(lines) ==
  IF lines > 500 THEN 20
  ELSE IF lines > 300 THEN 10
  ELSE IF lines > 100 THEN 5
  ELSE 0

\* the if / else if chain on the complexity
complexityPenalty(complexity) ==
  IF complexity > 50 THEN 30
  ELSE IF complexity > 30 THEN 20
  ELSE IF complexity > 15 THEN 10
  ELSE 0

longLinePenalty(longLines) == IF longLines > 10 THEN 10 ELSE 0

\* commentLines / lines < 0.05, in whole numbers
commentPenalty(commentLines, lines) ==
  IF 20 * commentLines < lines THEN 10 ELSE 0

\* Math.max(0, Math.min(100, score))
clampScore(score) ==
  LET low == IF score < 100 THEN score ELSE 100
  IN  IF low > 0 THEN low ELSE 0

estimateMaintainability(m) ==
  clampScore(100 - lineCountPenalty(m.lines)
                 - complexityPenalty(m.complexity)
                 - longLinePenalty(m.longLines)
                 - commentPenalty(m.commentLines, m.lines))

\* a call of estimateMaintainability on a text of these measures
CallEstimateMaintainability ==
  /\ mInput.lines > 0
  /\ mScore = None
  /\ mScore' = Some(estimateMaintainability(mInput))
  /\ UNCHANGED << pPath, pAnswers, pDiscovered, dCode, dLanguage, dDefs, mInput >>
  /\ UNCHANGED << fileVars, graphVars, reqVars, insightVars, jobVars, storeVars,
                  repoFiles, jobs, response, runVars >>

\* one function is given one input
InitUtils ==
  /\ StoreInit
  /\ RunInit
  /\ repoFiles = {PathBin, PathMd}
  /\ FileAtRest
  /\ GraphAtRest
  /\ RequestsAtRest
  /\ InsightsAtRest
  /\ JobsAtRest
  /\ \/ /\ pPath \in UtilPaths
        /\ pAnswers = <<>>
        /\ pDiscovered = None
        /\ DefinitionsAtRest
        /\ MaintainabilityAtRest
     \/ /\ dCode \in Codes
        /\ dLanguage \in Languages
        /\ dDefs = None
        /\ PathAtRest
        /\ MaintainabilityAtRest
     \/ /\ mInput \in MeasuresOfTexts
        /\ mScore = None
        /\ PathAtRest
        /\ DefinitionsAtRest

NextUtils ==
  \/ CallShouldIgnorePath
  \/ FilterListedFile
  \/ CallExtractDefinitions
  \/ CallEstimateMaintainability

SpecUtils == InitUtils /\ [][NextUtils]_vars

(***************************************************************************)
(* Properties of the functions of utils.ts (specification SpecUtils)        *)
(***************************************************************************)
\* the declarations the patterns of a language match, with the tag type each
\* gives
TagType(kind, language) ==
  IF language \in {"typescript", "javascript"}
  THEN CASE kind \in {"function", "const"} -> FunctionChars
         [] kind = "class" -> ClassChars
         [] kind = "interface" -> InterfaceChars
         [] kind = "type" -> TypeChars
         [] OTHER -> <<>>
  ELSE IF language = "python"
  THEN CASE kind = "def" -> FunctionChars
         [] kind = "class" -> ClassChars
         [] OTHER -> <<>>
  ELSE <<>>

\* the tags of the matched declarations in the order of the text
SourceOrderTags(code, language) ==
  LET matched == SelectSeq(code, LAMBDA d : TagType(d.kind, language) # <<>>)
  IN  [k \in 1..Len(matched) |->
         TagType(matched[k].kind, language) \o <<":">> \o matched[k].name]

\* C22: the list extractDefinitions returns is ordered by the position of
\* each match in the source text (a class before a function in the text
\* comes before it in the list), duplicates kept, so that the first 5 entries
\* the graph takes are the first 5 definitions in source order.
C22_DefinitionsInSourceOrder ==
  dDefs # None =>
    /\ dDefs[1] = SourceOrderTags(dCode, dLanguage)
    /\ slice0(dDefs[1], GraphSliceLimit)
         = slice0(SourceOrderTags(dCode, dLanguage), GraphSliceLimit)

\* name occurs in p as a run of consecutive characters
Occurs(name, p) ==
  \E i \in 1..Len(p), j \in 1..Len(p) : SubSeq(p, i, j) = name

NodeModules == <<"n","o","d","e","_","m","o","d","u","l","e","s">>

\* C24: shouldIgnorePath(p) is true exactly when some name of the deny-list
\* occurs as a substring of the whole path p; every path containing
\* node_modules is ignored; the same path always gives the same answer.
C24_IgnoredIffDenyListSubstring ==
  \A k \in 1..Len(pAnswers) :
     /\ pAnswers[k] = (\E name \in ignorePaths : Occurs(name, pPath))
     /\ Occurs(NodeModules, pPath) => pAnswers[k]
     /\ pAnswers[k] = pAnswers[1]

C24_Witness ==
  /\ pPath = PathCabinet
  /\ Len(pAnswers) = MaxIgnoreCalls
  /\ pAnswers[1]
  /\ pAnswers[MaxIgnoreCalls]

\* C25 as stated: mybin/x.ts is not excluded by the ignore rule and is
\* discovered as a source file, while src/bin/x.ts is excluded.
C25_MyBinKept ==
  /\ pPath = PathMyBin =>
       /\ \A k \in 1..Len(pAnswers) : ~pAnswers[k]
       /\ pDiscovered # None => pDiscovered[1] = <<PathMyBin>>
  /\ pPath = PathSrcBin =>
       /\ \A k \in 1..Len(pAnswers) : pAnswers[k]
       /\ pDiscovered # None => pDiscovered[1] = <<>>

\* C25 amended: mybin/x.ts and src/bin/x.ts are both excluded by the ignore
\* rule (each contains "bin"), and neither is discovered as a source file.
C25_BothBinPathsExcluded ==
  pPath \in {PathMyBin, PathSrcBin} =>
     /\ \A k \in 1..Len(pAnswers) : pAnswers[k]
     /\ pDiscovered # None => pDiscovered[1] = <<>>

C25_Witness ==
  /\ pPath = PathMyBin
  /\ pAnswers # <<>>
  /\ pAnswers[1]
  /\ pDiscovered = Some(<<>>)

\* the penalty of the highest threshold the value exceeds, 0 when it exceeds
\* none; steps is a set of <<threshold, penalty>>
OnePenalty(value, steps) ==
  LET over == {st \in steps : value > st[1]}
  IN  IF over = {} THEN 0
      ELSE (CHOOSE st \in over : \A other \in over : other[1] <= st[1])[2]

LineSteps == { <<500, 20>>, <<300, 10>>, <<100, 5>> }
ComplexitySteps == { <<50, 30>>, <<30, 20>>, <<15, 10>> }

\* C26: estimateMaintainability returns a value in [0,100] equal to 100 minus
\* exactly one line-count penalty, minus exactly one complexity penalty,
\* minus 10 if more than 10 long lines, minus 10 if the comment ratio is
\* below 0.05; a 501-line file with no comments scores at most 70.
C26_MaintainabilityScore ==
  mScore # None =>
    /\ mScore[1] \in 0..100
    /\ mScore[1] = 100 - OnePenalty(mInput.lines, LineSteps)
                       - OnePenalty(mInput.complexity, ComplexitySteps)
                       - (IF mInput.longLines > 10 THEN 10 ELSE 0)
                       - (IF 100 * mInput.commentLines < 5 * mInput.lines
                          THEN 10 ELSE 0)
    /\ (mInput.lines = 501 /\ mInput.commentLines = 0) => mScore[1] <= 70

C26_Witness ==
  /\ mScore = Some(30)
  /\ mInput = [lines |-> 501, complexity |-> 51, longLines |-> 11,
               commentLines |-> 0]

(***************************************************************************)
(* generateInsights on drawn verdict lists (specification SpecInsights):    *)
(* the technical-debt list, the hotspots and the in-place sort; the other   *)
(* fields of the result read the list without changing it                   *)
(***************************************************************************)
MaxInsightFiles == 4
DebtLimit == 10
HotspotLimit == 5
ComplexFilesLimit == 3
ComplexityThreshold == 20

Digits == <<"1", "2", "3", "4", "5", "6", "7", "8", "9">>
InsightPath(k) == <<"f", Digits[k], ".", "t", "s">>

RecRefactor == <<"R","e","f","a","c","t","o","r"," ","i","t">>
RecTests    == <<"A","d","d"," ","t","e","s","t","s">>

\* file.analysis: null, or an analysis with its recommendations
InsightAnalyses == {None, Some([recommendations |-> <<RecRefactor, RecTests>>])}

\* the verdicts of the file of position k
InsightVerdicts(k) ==
  { [path |-> InsightPath(k), commits |-> cs, complexity |-> cx,
     analysis |-> an] :
      cs \in {<<>>, <<"ann">>},
      cx \in {ComplexityThreshold, ComplexityThreshold + 1, 30},
      an \in InsightAnalyses }

RECURSIVE InsightLists(_)
\* the verdict lists of n files
InsightLists(n) ==
  IF n = 0 THEN {<<>>}
  ELSE {Append(fs, v) : fs \in InsightLists(n - 1), v \in InsightVerdicts(n)}

\* the words that make a recommendation a technical-debt statement
DebtWords ==
  { <<"r","e","f","a","c","t","o","r">>,
    <<"t","e","c","h","n","i","c","a","l"," ","d","e","b","t">>,
    <<"c","l","e","a","n","u","p">>,
    <<"d","e","p","r","e","c","a","t","e","d">> }

isDebtRecommendation(rec) ==
  \E w \in DebtWords : includes(toLowerCase(rec), w)

\* the two kinds of strings added to technicalDebt
recommendationDebt(rec) ==
  [kind |-> "recommendation", text |-> rec, complexity |-> 0]
complexityDebt(file) ==
  [kind |-> "High complexity in", text |-> file.path,
   complexity |-> file.complexity]

\* the recommendations loop over one file; a file without analysis is skipped
debtOfFile(file) ==
  IF file.analysis = None THEN <<>>
  ELSE LET kept == SelectSeq(file.analysis[1].recommendations,
                             isDebtRecommendation)
       IN  [k \in 1..Len(kept) |-> recommendationDebt(kept[k])]

\* stable sort by metrics.complexity, descending
RECURSIVE InsertByComplexity(_, _)
InsertByComplexity(sorted, v) ==
  IF sorted = <<>> THEN <<v>>
  ELSE IF Head(sorted).complexity >= v.complexity
       THEN <<Head(sorted)>> \o InsertByComplexity(Tail(sorted), v)
       ELSE <<v>> \o sorted

RECURSIVE sortByComplexity(_)
sortByComplexity(fs) ==
  IF fs = <<>> THEN <<>>
  ELSE InsertByComplexity(sortByComplexity(SubSeq(fs, 1, Len(fs) - 1)),
                          fs[Len(fs)])

\* files.filter(complexity > 20).sort(...).slice(0, 3)
complexFiles(files) ==
  slice0(sortByComplexity(
           SelectSeq(files, LAMBDA f : f.complexity > ComplexityThreshold)),
         ComplexFilesLimit)

\* generateInsights: the result and the array as the call leaves it
generateInsights(files) ==
  LET fromRecs == Concat([k \in 1..Len(files) |-> debtOfFile(files[k])])
      sorted   == sortByCommits(files)
      top      == slice0(sorted, HotspotLimit)
      complex  == complexFiles(sorted)
      debt     == Dedup(fromRecs \o
                        [k \in 1..Len(complex) |-> complexityDebt(complex[k])])
  IN  [files |-> sorted,
       result |-> [technicalDebt |-> slice0(debt, DebtLimit),
                   hotspots |-> [k \in 1..Len(top) |->
                                   [path |-> top[k].path,
                                    commits |-> Len(top[k].commits)]]]]

\* the call of phase 5 on some verdict list
CallGenerateInsights ==
  /\ insights = None
  /\ insights' = Some(generateInsights(iFiles).result)
  /\ iFiles' = generateInsights(iFiles).files
  /\ UNCHANGED iGiven
  /\ UNCHANGED << fileVars, graphVars, reqVars, utilVars, jobVars, storeVars,
                  repoFiles, jobs, response, runVars >>

InitInsights ==
  /\ StoreInit
  /\ RunInit
  /\ repoFiles = {PathBin, PathMd}
  /\ FileAtRest
  /\ GraphAtRest
  /\ RequestsAtRest
  /\ UtilsAtRest
  /\ JobsAtRest
  /\ iGiven \in UNION {InsightLists(n) : n \in 0..MaxInsightFiles}
  /\ iFiles = iGiven
  /\ insights = None

NextInsights == CallGenerateInsights

SpecInsights == InitInsights /\ [][NextInsights]_vars

(***************************************************************************)
(* Properties of generateInsights (specification SpecInsights)              *)
(***************************************************************************)
GivenFiles == {iGiven[k] : k \in 1..Len(iGiven)}
ComplexGiven == {f \in GivenFiles : f.complexity > ComplexityThreshold}

\* every distinct technical-debt statement of the run
DebtStatements ==
  {complexityDebt(f) : f \in ComplexGiven} \cup
  UNION { {recommendationDebt(f.analysis[1].recommendations[k]) :
             k \in {j \in 1..Len(f.analysis[1].recommendations) :
                      isDebtRecommendation(f.analysis[1].recommendations[j])}} :
          f \in {g \in GivenFiles : g.analysis # None} }

\* C23: whenever the run has at most 10 distinct technical-debt statements,
\* insights.technicalDebt holds a "High complexity in <path>" statement for
\* every analyzed file whose complexity exceeds 20.
C23_EveryComplexFileReported ==
  (insights # None /\ Cardinality(DebtStatements) <= DebtLimit) =>
     \A f \in ComplexGiven :
        InSeq(insights[1].technicalDebt, complexityDebt(f))

(***************************************************************************)
(* Properties of the report (specification Spec)                            *)
(***************************************************************************)
\* C27: the insights phase leaves the verdict list unchanged: report.files
\* lists the verdicts in the order in which the files were analyzed, the
\* order the graph phase saw, whatever the commit counts are.
C27_ReportKeepsAnalysisOrder ==
  report # None =>
    /\ report[1].files = analysisOut[1]
    /\ report[1].files = graphSaw[1]
    /\ report[1].files = insightsSaw[1]

\* C28: in the report, stats.analyzedFiles equals the number of verdicts in
\* report.files.
C28_AnalyzedFilesCountsVerdicts ==
  report # None =>
    report[1].stats[1].analyzedFiles = Len(report[1].files)

(***************************************************************************)
(* The API server's job map with several jobs (specification SpecJobs):     *)
(* each excavate() call is reduced to its outcome; the runs interleave at   *)
(* their awaits                                                             *)
(***************************************************************************)
\* what excavate() may return, and the messages of the errors it may throw
JobReports == { [modelUsed |-> "none"], [modelUsed |-> "gemini-pro"] }
ExcavateErrors == {"git log", "git ls-files", "save report"}

\* the position of a job's run: where it stands and the repoPath it got
at(position, repoPath) == [at |-> position, repoPath |-> repoPath]

\* handleStartExcavation up to jobs.set(jobId, job); the id is a timestamp
\* and a random suffix, taken here as one no job has yet
StartRequest(id, repoPath) ==
  /\ starting = None
  /\ jobPc[id].at = "none"
  /\ IF repoPath = ""
     THEN /\ response' = Some([success |-> FALSE,
                               error |-> "repoPath is required",
                               data |-> None])
          /\ UNCHANGED << jobs, jobVars >>
     ELSE /\ jobs' = jobs @@ (id :> newJob("pending"))
          /\ jobPc' = [jobPc EXCEPT ![id] = at("created", repoPath)]
          /\ starting' = Some(id)
          /\ UNCHANGED << response, jobPromise >>
  /\ UNCHANGED << fileVars, graphVars, reqVars, utilVars, insightVars,
                  storeVars, repoFiles, runVars >>

\* the call runExcavation(jobId, ...) inside handleStartExcavation:
\* job.status = "running"
RunExcavationStart(id) ==
  /\ starting = Some(id)
  /\ jobPc[id].at = "created"
  /\ jobs' = [jobs EXCEPT ![id].status = "running"]
  /\ jobPc' = [jobPc EXCEPT ![id].at = "started"]
  /\ UNCHANGED << starting, jobPromise, response >>
  /\ UNCHANGED << fileVars, graphVars, reqVars, utilVars, insightVars,
                  storeVars, repoFiles, runVars >>

\* new ExcavatorAgent(repoPath, ...) in the try block: when it throws, the
\* catch block runs and runExcavation returns; else excavate() is awaited.
\* Either way handleStartExcavation then returns its response.
ConstructAgent(id) ==
  /\ starting = Some(id)
  /\ jobPc[id].at = "started"
  /\ IF constructorThrows(jobPc[id].repoPath)
     THEN /\ jobs' = [jobs EXCEPT ![id] = jobFailed(@, NoDirectory)]
          /\ jobPc' = [jobPc EXCEPT ![id].at = "settled"]
          /\ jobPromise' = [jobPromise EXCEPT ![id] = "fulfilled"]
     ELSE /\ jobPc' = [jobPc EXCEPT ![id].at = "excavating"]
          /\ jobPromise' = [jobPromise EXCEPT ![id] = "pending"]
          /\ UNCHANGED jobs
  /\ starting' = None
  /\ response' = Some([success |-> TRUE, error |-> NULL, data |-> None])
  /\ UNCHANGED << fileVars, graphVars, reqVars, utilVars, insightVars,
                  storeVars, repoFiles, runVars >>

\* excavate() returned: the rest of the try block
ExcavateReturns(id, rep) ==
  /\ starting = None
  /\ jobPc[id].at = "excavating"
  /\ jobs' = [jobs EXCEPT ![id] = jobCompleted(@, rep)]
  /\ jobPc' = [jobPc EXCEPT ![id].at = "settled"]
  /\ jobPromise' = [jobPromise EXCEPT ![id] = "fulfilled"]
  /\ UNCHANGED << starting, response >>
  /\ UNCHANGED << fileVars, graphVars, reqVars, utilVars, insightVars,
                  storeVars, repoFiles, runVars >>

\* excavate() threw an Error: the catch block, after which runExcavation
\* returns normally
ExcavateThrows(id, message) ==
  /\ starting = None
  /\ jobPc[id].at = "excavating"
  /\ jobs' = [jobs EXCEPT ![id] = jobFailed(@, message)]
  /\ jobPc' = [jobPc EXCEPT ![id].at = "settled"]
  /\ jobPromise' = [jobPromise EXCEPT ![id] = "fulfilled"]
  /\ UNCHANGED << starting, response >>
  /\ UNCHANGED << fileVars, graphVars, reqVars, utilVars, insightVars,
                  storeVars, repoFiles, runVars >>

\* GET /api/jobs/:id/report
GetReport(id) ==
  /\ starting = None
  /\ response' = Some(handleGetReport(jobs, id))
  /\ UNCHANGED << jobs, jobVars >>
  /\ UNCHANGED << fileVars, graphVars, reqVars, utilVars, insightVars,
                  storeVars, repoFiles, runVars >>

InitJobs ==
  /\ StoreInit
  /\ RunInit
  /\ repoFiles = {PathBin, PathMd}
  /\ FileAtRest
  /\ GraphAtRest
  /\ RequestsAtRest
  /\ UtilsAtRest
  /\ InsightsAtRest
  /\ JobsAtRest

NextJobs ==
  \/ \E id \in JobIds, repoPath \in RepoPaths : StartRequest(id, repoPath)
  \/ \E id \in JobIds : RunExcavationStart(id)
  \/ \E id \in JobIds : ConstructAgent(id)
  \/ \E id \in JobIds, rep \in JobReports : ExcavateReturns(id, rep)
  \/ \E id \in JobIds, message \in ExcavateErrors : ExcavateThrows(id, message)
  \/ \E id \in JobIds : GetReport(id)

SpecJobs == InitJobs /\ [][NextJobs]_vars

(***************************************************************************)
(* Properties of the job map (specification SpecJobs)                       *)
(***************************************************************************)
Finished(job) == job.status \in {"completed", "failed"}

\* the moves of a status the claim allows
StatusMoves ==
  { <<"pending", "running">>, <<"running", "completed">>,
    <<"running", "failed">> }

JobsWellFormed ==
  \A id \in DOMAIN jobs :
     /\ jobs[id].status \in {"pending", "running", "completed", "failed"}
     /\ jobs[id].completedAt <=> Finished(jobs[id])
     /\ jobPromise[id] # "rejected"

JobStep ==
  /\ DOMAIN jobs \subseteq DOMAIN jobs'
  /\ \A id \in DOMAIN jobs :
       /\ jobs'[id].status # jobs[id].status =>
            <<jobs[id].status, jobs'[id].status>> \in StatusMoves
       /\ Finished(jobs[id]) => jobs'[id] = jobs[id]
       /\ jobs'[id] # jobs[id] => jobPc'[id] # jobPc[id]
  /\ \A id \in DOMAIN jobs' \ DOMAIN jobs : jobs'[id].status = "pending"
  /\ Cardinality({id \in DOMAIN jobs' :
                    id \notin DOMAIN jobs \/ jobs'[id] # jobs[id]}) <= 1

\* C29: every job's status only moves pending -> running -> completed or
\* pending -> running -> failed; a finished job never changes again (the
\* promise of runExcavation never rejects, so the rejection handler never
\* runs); completedAt is set exactly when the job is completed or failed; a
\* step of one job's run changes no other job.
C29_JobStatusMoves == []JobsWellFormed /\ [][JobStep]_vars

C29_Witness ==
  /\ \A id \in JobIds : id \in DOMAIN jobs
  /\ jobs[jobIdOf(1)].status = "failed"
  /\ jobs[jobIdOf(1)].error = "save report"
  /\ jobs[jobIdOf(2)].status = "completed"
  /\ jobPromise = [id \in JobIds |-> "fulfilled"]

(***************************************************************************)
(* Properties of the two writers of the job store (specification SpecStore) *)
(***************************************************************************)
StoredFinished ==
  storeJob # None /\ storeJob[1].status \in {"completed", "failed"}

\* a redis.set of processExcavation, of webhook h
ProcWrites == procPhase = "set" /\ procPhase' = "get"
HookWrites(h) == hookPc[h] = "set" /\ hookPc'[h] = "done"

CompletedIsWhole ==
  (storeJob # None /\ storeJob[1].status = "completed") =>
     (storeJob[1].progress = 1000 /\ storeJob[1].result)

StoreStep ==
  /\ StoredFinished => storeJob'[1].status = storeJob[1].status
  /\ ProcWrites => procRead = storeJob
  /\ \A h \in Hooks : HookWrites(h) => hookRead[h] = storeJob

\* C30: for any interleaving of processExcavation's updates with the Kestra
\* webhook for the same job, a completed job always has progress 100 and a
\* result, a completed or failed job never changes status afterwards, and
\* every write is a merge into the job as it is stored at that moment (no
\* update of the other writer is lost).
C30_StoreWritersSafe == []CompletedIsWhole /\ [][StoreStep]_vars

====
